---- MODULE Spec2Model ----
(***************************************************************************)
(* Model of the OCR label-ingestion core of fibersplice:                   *)
(*   - the text canonicalizer (cleanOcrText, normalizeCircuitId),          *)
(*   - the image preprocessor (preprocessImageForOCR and its stages),     *)
(*   - the recognition engine singleton (getPaddleOcr, runPaddleOcr),      *)
(*   - the storage-backed request handler (apiRequest) and the Load        *)
(*     mutation of the History dialog.                                     *)
(* A text is a sequence of one-character strings; an image is a sequence   *)
(* of pixels.                                                              *)
(***************************************************************************)
EXTENDS Integers, Sequences, FiniteSets, TLC

VARIABLES
    origText,   \* the text first submitted (never changes)
    rawText,    \* text handed to the canonicalizer (OCR output or typed text)
    cleaned,    \* result of cleanOcrText(rawText)
    ids,        \* normalizeCircuitId applied to each line of cleaned
    typed,      \* normalizeCircuitId applied to rawText itself
    prevIds,    \* ids of the previous round (before the text was fed back)
    round,      \* number of times the canonicalizer output was fed back
    tphase,     \* "raw" | "cleaned" | "normalized" | "typed"
    sIn,        \* image buffer handed to a single stage function
    sOut,       \* the buffer after that stage function returned
    sOp,        \* the stage function applied ("none" before the call)
    sArg,       \* the blockSize and constant the stage function was given
    pc,         \* position of the one preprocessImageForOCR call
    cfg,        \* its PreprocessOptions, defaults filled in
    src,        \* the image behind imageSrc: decodable or not, size, picture
    img,        \* imageData, the buffer the stages work on
    log,        \* the stages that ran, in the order they ran
    result,     \* "pending" | "rejected" | the image written back
    ocrInstance,  \* the module variable ocrInstance: NoValue or an instance
    initPromise,  \* the module variable initPromise: 0 (null) or the number
                  \* of the initialization it is the promise of
    inits,      \* the initializations started, in order: where each stands
                \* and what its promise settled to
    calls,      \* the calls of getPaddleOcr and runPaddleOcr
    cables,     \* storage: the fiberCount of each cable that exists
    circuits,   \* storage: the circuits, in the order they were created
    reqs,       \* the POST /api/circuits requests
    parallel,   \* how many of them the page has in flight at a time
    saveCalls,  \* storage: the calls made on saves
    mutation,   \* loadSaveMutation: its status, request and response
    invalidated \* the query keys invalidated so far

tvars == <<origText, rawText, cleaned, ids, typed, prevIds, round, tphase>>

svars == <<sIn, sOut, sOp, sArg>>

pvars == <<pc, cfg, src, img, log, result>>

evars == <<ocrInstance, initPromise, inits, calls>>

avars == <<cables, circuits, reqs, parallel, saveCalls, mutation, invalidated>>

vars == <<origText, rawText, cleaned, ids, typed, prevIds, round, tphase,
          sIn, sOut, sOp, sArg, pc, cfg, src, img, log, result,
          ocrInstance, initPromise, inits, calls,
          cables, circuits, reqs, parallel, saveCalls, mutation, invalidated>>

----------------------------------------------------------------------------
(* Bounds *)

MaxIdAtoms == 3
MaxNoiseAtoms == 4
MaxRounds == 1
MaxW == 2
MaxH == 2
MaxCols == 4
MaxRows == 3
MaxSpots == 1
MaxCalls == 3
MaxReqs == 2
MaxFibers == 4
MaxClicks == 1

----------------------------------------------------------------------------
(* Character classes of the regular expressions *)

\* \d
Digits == {"0", "1", "2", "3", "4", "5", "6", "7", "8", "9"}

Letters == {"A", "B", "C", "G", "N", "Q", "R", "T", "a", "b", "c", "n", "x"}

\* [A-Za-z0-9]
Alnum == Letters \cup Digits

\* \w, the class \b is defined by: [A-Za-z0-9_]
WordChars == Alnum \cup {"_"}

\* \s, and the characters String.prototype.trim removes
Space == {" ", "\t", "\r", "\n"}

----------------------------------------------------------------------------
(* String helpers *)

\* length of the longest run of characters of class Cls starting at s[i]
\* (what a greedy Cls* consumes from position i)
RunLen(s, i, Cls) ==
    IF i > Len(s) THEN 0
    ELSE CHOOSE n \in 0..(Len(s) - i + 1) :
            /\ \A k \in i..(i + n - 1) : s[k] \in Cls
            /\ (i + n > Len(s) \/ s[i + n] \notin Cls)

\* String.prototype.trim
Trim(s) ==
    LET keep == {k \in 1..Len(s) : s[k] \notin Space}
    IN  IF keep = {} THEN <<>>
        ELSE LET lo == CHOOSE k \in keep : \A j \in keep : k <= j
                 hi == CHOOSE k \in keep : \A j \in keep : k >= j
             IN  SubSeq(s, lo, hi)

RECURSIVE SplitFrom(_, _, _)
SplitFrom(s, i, c) ==
    LET hits == {k \in i..Len(s) : s[k] = c}
    IN  IF hits = {} THEN <<SubSeq(s, i, Len(s))>>
        ELSE LET j == CHOOSE k \in hits : \A h \in hits : k <= h
             IN  <<SubSeq(s, i, j - 1)>> \o SplitFrom(s, j + 1, c)

\* text.split('\n')
SplitLines(s) == SplitFrom(s, 1, "\n")

RECURSIVE Join(_, _)
\* Array.prototype.join(sep)
Join(parts, sep) ==
    IF Len(parts) = 0 THEN <<>>
    ELSE IF Len(parts) = 1 THEN parts[1]
    ELSE parts[1] \o sep \o Join(Tail(parts), sep)

RECURSIVE SplitWsFrom(_, _)
\* s.split(/\s+/) from position i: the separators are the maximal runs of \s
SplitWsFrom(s, i) ==
    LET hits == {k \in i..Len(s) : s[k] \in Space}
    IN  IF hits = {} THEN <<SubSeq(s, i, Len(s))>>
        ELSE LET j == CHOOSE k \in hits : \A h \in hits : k <= h
                 n == RunLen(s, j, Space)
             IN  <<SubSeq(s, i, j - 1)>> \o SplitWsFrom(s, j + n)

SplitWs(s) == SplitWsFrom(s, 1)

NonEmpty(p) == Len(p) > 0

----------------------------------------------------------------------------
(* cleanOcrText, steps 1 to 4 *)

RECURSIVE RemoveEnclosedFrom(_, _, _, _)
\* line.replace(/\([^)]*\)/g, '') with open = "(" and close = ")", scanning
\* from position i: a match starts at the first open that has a close
\* somewhere after it and ends at the first such close.
RemoveEnclosedFrom(s, i, open, close) ==
    IF i > Len(s) THEN <<>>
    ELSE LET closers == {k \in (i + 1)..Len(s) : s[k] = close}
         IN  IF s[i] = open /\ closers # {}
             THEN LET j == CHOOSE k \in closers : \A h \in closers : k <= h
                  IN  RemoveEnclosedFrom(s, j + 1, open, close)
             ELSE <<s[i]>> \o RemoveEnclosedFrom(s, i + 1, open, close)

\* a step 1 that also removes from an unterminated '(' to the end of the line
RemoveParensToEnd(s) ==
    LET r     == RemoveEnclosedFrom(s, 1, "(", ")")
        opens == {k \in 1..Len(r) : r[k] = "("}
    IN  IF opens = {} THEN r
        ELSE SubSeq(r, 1, (CHOOSE k \in opens : \A h \in opens : k <= h) - 1)

\* step 1: line.replace(/\([^)]*\)/g, '')
RemoveParens(s) == RemoveEnclosedFrom(s, 1, "(", ")")

\* step 2: line.replace(/<[^>]*>/g, '')
RemoveAngles(s) == RemoveEnclosedFrom(s, 1, "<", ">")

\* \b at the gap before position i of s (between s[i-1] and s[i])
WordBoundary(s, i) ==
    LET before == i > 1 /\ s[i - 1] \in WordChars
        after  == i <= Len(s) /\ s[i] \in WordChars
    IN  before # after

\* /\bNC\b/i matches at position i
NCMatchAt(s, i) ==
    /\ i + 1 <= Len(s)
    /\ s[i] \in {"N", "n"}
    /\ s[i + 1] \in {"C", "c"}
    /\ WordBoundary(s, i)
    /\ WordBoundary(s, i + 2)

RECURSIVE RemoveNCFrom(_, _)
RemoveNCFrom(s, i) ==
    IF i > Len(s) THEN <<>>
    ELSE IF NCMatchAt(s, i) THEN RemoveNCFrom(s, i + 2)
    ELSE <<s[i]>> \o RemoveNCFrom(s, i + 1)

\* step 3: line.replace(/\bNC\b/gi, '')
RemoveNC(s) == RemoveNCFrom(s, 1)

\* step 4: line.replace(/@/g, '0')
AtToZero(s) == [k \in 1..Len(s) |-> IF s[k] = "@" THEN "0" ELSE s[k]]

----------------------------------------------------------------------------
(* cleanOcrText, step 5: extraction *)

NoMatch == [found |-> FALSE, prefix |-> <<>>, start |-> <<>>, end |-> <<>>]

\* /([A-Za-z0-9]+),(\d+)-(\d+)/ tried at position i.  Every quantifier is
\* greedy and is followed by a character outside its class, so a shorter
\* repetition can never succeed where the longest one fails.
CommaDashAt(s, i) ==
    LET pn == RunLen(s, i, Alnum)
        c  == i + pn
        sn == RunLen(s, c + 1, Digits)
        d  == c + 1 + sn
        en == RunLen(s, d + 1, Digits)
    IN  IF /\ pn >= 1
           /\ c <= Len(s) /\ s[c] = ","
           /\ sn >= 1
           /\ d <= Len(s) /\ s[d] = "-"
           /\ en >= 1
        THEN [found |-> TRUE,
              prefix |-> SubSeq(s, i, c - 1),
              start |-> SubSeq(s, c + 1, d - 1),
              end |-> SubSeq(s, d + 1, d + en)]
        ELSE NoMatch

\* a matcher that returns the last match of the line instead of the first
CommaDashMatchRightmost(s) ==
    LET at == {i \in 1..Len(s) : CommaDashAt(s, i).found}
    IN  IF at = {} THEN NoMatch
        ELSE CommaDashAt(s, CHOOSE i \in at : \A j \in at : i >= j)

\* line.match(commaDashPattern): the match at the leftmost position that has one
CommaDashMatch(s) ==
    LET at == {i \in 1..Len(s) : CommaDashAt(s, i).found}
    IN  IF at = {} THEN NoMatch
        ELSE CommaDashAt(s, CHOOSE i \in at : \A j \in at : i <= j)

\* the pattern without its anchor: the leftmost place of t where
\* ([A-Za-z0-9]*)\s+(\d+)\s+(\d+) matches
SpaceMatchUnanchored(t) ==
    LET At(i) ==
            LET pn == RunLen(t, i, Alnum)
                w1 == RunLen(t, i + pn, Space)
                a  == i + pn + w1
                sn == RunLen(t, a, Digits)
                w2 == RunLen(t, a + sn, Space)
                b  == a + sn + w2
                en == RunLen(t, b, Digits)
            IN  IF w1 >= 1 /\ sn >= 1 /\ w2 >= 1 /\ en >= 1
                THEN [found |-> TRUE,
                      prefix |-> SubSeq(t, i, i + pn - 1),
                      start |-> SubSeq(t, a, a + sn - 1),
                      end |-> SubSeq(t, b, b + en - 1)]
                ELSE NoMatch
        at == {i \in 1..Len(t) : At(i).found}
    IN  IF at = {} THEN NoMatch
        ELSE At(CHOOSE i \in at : \A j \in at : i <= j)

\* /^([A-Za-z0-9]*)\s+(\d+)\s+(\d+)/ on t (the trimmed line)
SpaceMatch(t) ==
    LET pn == RunLen(t, 1, Alnum)
        w1 == RunLen(t, pn + 1, Space)
        a  == pn + w1 + 1
        sn == RunLen(t, a, Digits)
        w2 == RunLen(t, a + sn, Space)
        b  == a + sn + w2
        en == RunLen(t, b, Digits)
    IN  IF w1 >= 1 /\ sn >= 1 /\ w2 >= 1 /\ en >= 1
        THEN [found |-> TRUE,
              prefix |-> SubSeq(t, 1, pn),
              start |-> SubSeq(t, a, a + sn - 1),
              end |-> SubSeq(t, b, b + en - 1)]
        ELSE NoMatch

\* steps 1 to 4 of the loop body
Denoise(line) == AtToZero(RemoveNC(RemoveAngles(RemoveParens(line))))

\* a loop body that tries the whitespace shape before the comma-dash shape
CleanLineSpaceFirst(line) ==
    IF Trim(line) = <<>> THEN <<>>
    ELSE LET l  == Denoise(line)
             cd == CommaDashMatch(l)
             sp == SpaceMatch(Trim(l))
         IN  IF sp.found
             THEN <<Trim(sp.prefix \o <<" ">> \o sp.start \o <<" ">> \o sp.end)>>
             ELSE IF cd.found
             THEN <<cd.prefix \o <<",">> \o cd.start \o <<"-">> \o cd.end>>
             ELSE <<>>

\* One iteration of the loop over the lines: what it pushes to cleanedLines
CleanLine(line) ==
    IF Trim(line) = <<>> THEN <<>>
    ELSE LET l  == Denoise(line)
             cd == CommaDashMatch(l)
             sp == SpaceMatch(Trim(l))
         IN  IF cd.found
             THEN <<cd.prefix \o <<",">> \o cd.start \o <<"-">> \o cd.end>>
             ELSE IF sp.found
             THEN <<Trim(sp.prefix \o <<" ">> \o sp.start \o <<" ">> \o sp.end)>>
             ELSE <<>>

RECURSIVE CleanLinesAbort(_)
\* a loop that stops at the first non-empty line matching neither shape
CleanLinesAbort(lines) ==
    IF Len(lines) = 0 THEN <<>>
    ELSE IF Trim(Head(lines)) # <<>> /\ CleanLine(Head(lines)) = <<>> THEN <<>>
    ELSE CleanLine(Head(lines)) \o CleanLinesAbort(Tail(lines))

RECURSIVE CleanLines(_)
CleanLines(lines) ==
    IF Len(lines) = 0 THEN <<>>
    ELSE CleanLine(Head(lines)) \o CleanLines(Tail(lines))

cleanOcrText(text) ==
    IF Trim(text) = <<>> THEN <<>>
    ELSE Join(CleanLines(SplitLines(text)), <<"\n">>)

----------------------------------------------------------------------------
(* normalizeCircuitId *)

\* a normalizer that keeps only the first token as the prefix
normalizeFirstTokenPrefix(input) ==
    IF Trim(input) = <<>> THEN input
    ELSE LET parts == SelectSeq(SplitWs(Trim(input)), NonEmpty)
             n     == Len(parts)
         IN  IF n < 3 THEN input
             ELSE parts[1] \o <<",">> \o parts[n - 1] \o <<"-">> \o parts[n]

\* a normalizer that needs four tokens before it rewrites
normalizeFromFourTokens(input) ==
    IF Trim(input) = <<>> THEN input
    ELSE LET parts == SelectSeq(SplitWs(Trim(input)), NonEmpty)
             n     == Len(parts)
         IN  IF n < 4 THEN input
             ELSE Join(SubSeq(parts, 1, n - 2), <<>>)
                      \o <<",">> \o parts[n - 1] \o <<"-">> \o parts[n]

normalizeCircuitId(input) ==
    IF Trim(input) = <<>> THEN input
    ELSE LET parts == SelectSeq(SplitWs(Trim(input)), NonEmpty)
             n     == Len(parts)
         IN  IF n < 3 THEN input
             ELSE Join(SubSeq(parts, 1, n - 2), <<>>)
                      \o <<",">> \o parts[n - 1] \o <<"-">> \o parts[n]

\* the lines of the cleaner's output, as its consumer splits them
OutputLines(out) == IF out = <<>> THEN <<>> ELSE SplitLines(out)

----------------------------------------------------------------------------
(* Image buffers: ImageData as width, height and the pixels in row-major     *)
(* order, each pixel the four bytes r, g, b, a of the Uint8ClampedArray.     *)

Min(a, b) == IF a < b THEN a ELSE b

Max(a, b) == IF a > b THEN a ELSE b

\* Math.max(0, Math.min(255, v))
Clamp255(v) == Max(0, Min(255, v))

\* floor of num / den for den > 0
FloorDiv(num, den) == num \div den

\* Math.round(num / den) for den > 0: the nearest integer, halves upwards
RoundHalfUp(num, den) == FloorDiv(2 * num + den, 2 * den)

\* the store of num / den (den > 0) into a Uint8ClampedArray: clamped to
\* 0..255 and rounded to the nearest integer, halves to the even one
ToUint8Clamped(num, den) ==
    IF num <= 0 THEN 0
    ELSE IF num >= 255 * den THEN 255
    ELSE LET q == FloorDiv(num, den)
             r == num - q * den
         IN  IF 2 * r < den THEN q
             ELSE IF 2 * r > den THEN q + 1
             ELSE IF q % 2 = 0 THEN q ELSE q + 1

Gray(v) == [r |-> v, g |-> v, b |-> v, a |-> 255]

\* a rewrite that also sets the fourth byte of each pixel
SetRGBOpaque(im, v) ==
    [im EXCEPT !.px = [k \in 1..Len(im.px) |->
        [r |-> v[k], g |-> v[k], b |-> v[k], a |-> 255]]]

\* the pixels of an image rewritten channel by channel: r, g and b set to
\* v[k] for pixel k, alpha left alone (the loops step by 4 and never write
\* d[i + 3])
SetRGB(im, v) ==
    [im EXCEPT !.px = [k \in 1..Len(im.px) |->
        [r |-> v[k], g |-> v[k], b |-> v[k], a |-> im.px[k].a]]]

\* the set of values of the red channel (the channel the stages read)
Lums(im) == {im.px[k].r : k \in 1..Len(im.px)}

SetMin(S) == CHOOSE m \in S : \A x \in S : m <= x

SetMax(S) == CHOOSE m \in S : \A x \in S : m >= x

\* the first loop of autoContrast: min starts at 255 and max at 0
ObservedMin(im) == SetMin(Lums(im) \cup {255})

ObservedMax(im) == SetMax(Lums(im) \cup {0})

autoContrast(im) ==
    LET min   == ObservedMin(im)
        max   == ObservedMax(im)
        range == IF max - min = 0 THEN 1 ELSE max - min
    IN  SetRGB(im, [k \in 1..Len(im.px) |-> RoundHalfUp((im.px[k].r - min) * 255, range)])

grayscale(im) ==
    SetRGB(im, [k \in 1..Len(im.px) |->
        ToUint8Clamped(2126 * im.px[k].r + 7152 * im.px[k].g + 722 * im.px[k].b,
                       10000)])

RECURSIVE SumRange(_, _, _)
\* the sum of the red channel over pixels lo to hi, added up by halves
SumRange(im, lo, hi) ==
    IF lo > hi THEN 0
    ELSE IF lo = hi THEN im.px[lo].r
    ELSE SumRange(im, lo, (lo + hi) \div 2)
            + SumRange(im, (lo + hi) \div 2 + 1, hi)

\* total: the sum of the red channel over the first n pixels
SumLum(im, n) == SumRange(im, 1, n)

\* avgBrightness < 128, with avgBrightness = total / pixelCount (NaN, and so
\* not below 128, for an empty buffer)
DarkBackground(im) ==
    Len(im.px) > 0 /\ SumLum(im, Len(im.px)) < 128 * Len(im.px)

invertIfDarkBackground(im) ==
    IF DarkBackground(im)
    THEN [im EXCEPT !.px = [k \in 1..Len(im.px) |->
            [r |-> 255 - im.px[k].r, g |-> 255 - im.px[k].g,
             b |-> 255 - im.px[k].b, a |-> im.px[k].a]]]
    ELSE im

\* a store that drops the fraction of the value
boostContrastTruncating(im, f) ==
    SetRGB(im, [k \in 1..Len(im.px) |->
        FloorDiv(Max(0, Min(255 * f[2], im.px[k].r * f[1] + 128 * (f[2] - f[1]))),
                 f[2])])

\* factor is the fraction f[1] / f[2]:
\* d[i] * factor + 128 * (1 - factor), clamped, stored into the byte array
boostContrast(im, f) ==
    SetRGB(im, [k \in 1..Len(im.px) |->
        ToUint8Clamped(im.px[k].r * f[1] + 128 * (f[2] - f[1]), f[2])])

\* index in px of the pixel in column x, row y (both from 0)
At(im, x, y) == y * im.w + x + 1

Lum(im, x, y) == im.px[At(im, x, y)].r

\* the 3x3 kernel 0,-1,0 / -1,5,-1 / 0,-1,0 read from the copy of the buffer
Convolved(im, x, y) ==
    5 * Lum(im, x, y) - Lum(im, x, y - 1) - Lum(im, x, y + 1)
        - Lum(im, x - 1, y) - Lum(im, x + 1, y)

RECURSIVE InPlaceValue(_, _, _)
\* the value of pixel (x, y) when the kernel reads the buffer it writes: the
\* pixels above and to the left have been sharpened by the time it is read
InPlaceValue(im, x, y) ==
    IF x >= 1 /\ x < im.w - 1 /\ y >= 1 /\ y < im.h - 1
    THEN Clamp255(5 * Lum(im, x, y) - InPlaceValue(im, x, y - 1)
                    - Lum(im, x, y + 1) - InPlaceValue(im, x - 1, y)
                    - Lum(im, x + 1, y))
    ELSE Lum(im, x, y)

\* a convolution without the copy of the buffer
sharpenInPlace(im) ==
    SetRGB(im, [k \in 1..Len(im.px) |->
        InPlaceValue(im, (k - 1) % im.w, (k - 1) \div im.w)])

sharpen(im) ==
    SetRGB(im, [k \in 1..Len(im.px) |->
        LET x == (k - 1) % im.w
            y == (k - 1) \div im.w
        IN  IF x >= 1 /\ x < im.w - 1 /\ y >= 1 /\ y < im.h - 1
            THEN Clamp255(Convolved(im, x, y))
            ELSE im.px[k].r])

RECURSIVE RowSum(_, _, _)
\* rowSum after column x of row y
RowSum(im, x, y) ==
    IF x < 0 THEN 0 ELSE Lum(im, x, y) + RowSum(im, x - 1, y)

RECURSIVE Integral(_, _, _)
\* integral[y1 * w1 + x1]: row 0 and column 0 stay 0, and
\* integral[(y + 1) * w1 + (x + 1)] = rowSum + integral[y * w1 + (x + 1)]
Integral(im, x1, y1) ==
    IF x1 = 0 \/ y1 = 0 THEN 0
    ELSE RowSum(im, x1 - 1, y1 - 1) + Integral(im, x1, y1 - 1)

\* the Float64Array integral once the first pair of loops has filled it, as
\* a table over column and row
IntegralImage(im) ==
    [q \in (0..im.w) \X (0..im.h) |-> Integral(im, q[1], q[2])]

\* the clipped window of pixel (x, y)
Window(im, x, y, half) ==
    [x0 |-> Max(0, x - half), y0 |-> Max(0, y - half),
     x1 |-> Min(im.w - 1, x + half), y1 |-> Min(im.h - 1, y + half)]

WindowCount(win) == (win.x1 - win.x0 + 1) * (win.y1 - win.y0 + 1)

\* four lookups that take the left column of the window from one place to
\* the right of where the window starts
WindowSumShifted(integral, win) ==
    integral[<<win.x1 + 1, win.y1 + 1>>] - integral[<<win.x1 + 1, win.y0>>]
        - integral[<<win.x0 + 1, win.y1 + 1>>] + integral[<<win.x0 + 1, win.y0>>]

\* the four lookups
WindowSum(integral, win) ==
    integral[<<win.x1 + 1, win.y1 + 1>>] - integral[<<win.x1 + 1, win.y0>>]
        - integral[<<win.x0, win.y1 + 1>>] + integral[<<win.x0, win.y0>>]

\* a comparison that also blackens a pixel equal to mean - constant
adaptiveThresholdInclusive(im, blockSize, constant) ==
    LET integral == CHOOSE table \in {IntegralImage(im)} : TRUE
    IN  SetRGB(im, [k \in 1..Len(im.px) |->
            LET x   == (k - 1) % im.w
                y   == (k - 1) \div im.w
                win == Window(im, x, y, blockSize \div 2)
                cnt == WindowCount(win)
            IN  IF im.px[k].r * cnt <= WindowSum(integral, win) - constant * cnt
                THEN 0 ELSE 255])

\* data[idx] < mean - constant with mean = sum / count, count > 0
adaptiveThreshold(im, blockSize, constant) ==
    LET integral == CHOOSE table \in {IntegralImage(im)} : TRUE
    IN  SetRGB(im, [k \in 1..Len(im.px) |->
            LET x   == (k - 1) % im.w
                y   == (k - 1) \div im.w
                win == Window(im, x, y, blockSize \div 2)
                cnt == WindowCount(win)
            IN  IF im.px[k].r * cnt < WindowSum(integral, win) - constant * cnt
                THEN 0 ELSE 255])

----------------------------------------------------------------------------
(* Inputs of the stage functions: grayscale images of at most MaxCols x     *)
(* MaxRows pixels, either a background level with at most MaxSpots pixels   *)
(* of one other level, or the levels repeated in a fixed order              *)

Levels == {0, 127, 128, 255}

SpotBuffers(n) ==
    UNION { { [k \in 1..n |-> Gray(IF k \in S THEN fg ELSE bg)]
                : bg \in Levels, fg \in Levels }
            : S \in {T \in SUBSET (1..n) : Cardinality(T) <= MaxSpots} }

LevelCycle == <<0, 128, 255, 127>>

\* pixel k holds the level step places further in the cycle than pixel k - 1
CycleBuffers(n) ==
    { [k \in 1..n |-> Gray(LevelCycle[((first + k * step) % 4) + 1])]
        : first \in 0..3, step \in 1..3 }

StageImages ==
    UNION { { [w |-> w, h |-> h, px |-> px]
                : px \in SpotBuffers(w * h) \cup CycleBuffers(w * h) }
            : w \in 1..MaxCols, h \in 1..MaxRows }

\* the arguments of a stage function that takes none besides the buffer
NoArg == [blockSize |-> 0, constant |-> 0]

\* the blockSize and constant adaptiveThreshold is called with
ThresholdArgs ==
    [blockSize : {1, 3, 5}, constant : {10}] \cup [blockSize : {3}, constant : {0}]

TextIdle ==
    /\ origText = <<>>
    /\ rawText = <<>>
    /\ cleaned = <<>>
    /\ ids = <<>>
    /\ typed = <<>>
    /\ prevIds = <<>>
    /\ round = 0
    /\ tphase = "idle"

StageIdle ==
    /\ sIn = [w |-> 0, h |-> 0, px |-> <<>>]
    /\ sOut = sIn
    /\ sOp = "none"
    /\ sArg = [blockSize |-> 0, constant |-> 0]

NoImage == [w |-> 0, h |-> 0, px |-> <<>>]

PipeIdle ==
    /\ pc = "idle"
    /\ cfg = [minWidth |-> 0]
    /\ src = [decodable |-> FALSE]
    /\ img = NoImage
    /\ log = <<>>
    /\ result = "pending"

\* no value yet: null in the module variables, undefined in a call
NoValue == [kind |-> "null"]

EngineIdle ==
    /\ ocrInstance = NoValue
    /\ initPromise = 0
    /\ inits = <<>>
    /\ calls = <<>>

ApiIdle ==
    /\ cables = <<>>
    /\ circuits = <<>>
    /\ reqs = <<>>
    /\ parallel = 0
    /\ saveCalls = <<>>
    /\ mutation = [status |-> "idle"]
    /\ invalidated = {}

StageInit ==
    /\ sIn \in StageImages
    /\ sOut = sIn
    /\ sOp = "none"
    /\ sArg = NoArg
    /\ TextIdle
    /\ PipeIdle
    /\ EngineIdle
    /\ ApiIdle

ApplyAutoContrast ==
    /\ sOp = "none"
    /\ sOut' = autoContrast(sIn)
    /\ sOp' = "autoContrast"
    /\ UNCHANGED <<sIn, sArg, tvars, pvars, evars, avars>>

ApplyInvertIfDarkBackground ==
    /\ sOp = "none"
    /\ sOut' = invertIfDarkBackground(sIn)
    /\ sOp' = "invertIfDarkBackground"
    /\ UNCHANGED <<sIn, sArg, tvars, pvars, evars, avars>>

\* invertIfDarkBackground called once more on the buffer it has corrected
ReapplyInvertIfDarkBackground ==
    /\ sOp = "invertIfDarkBackground"
    /\ sIn' = sOut
    /\ sOut' = invertIfDarkBackground(sOut)
    /\ sOp' = "invertIfDarkBackground again"
    /\ UNCHANGED <<sArg, tvars, pvars, evars, avars>>

ApplySharpen ==
    /\ sOp = "none"
    /\ sOut' = sharpen(sIn)
    /\ sOp' = "sharpen"
    /\ UNCHANGED <<sIn, sArg, tvars, pvars, evars, avars>>

ApplyAdaptiveThreshold ==
    /\ sOp = "none"
    /\ \E arg \in ThresholdArgs :
          /\ sArg' = arg
          /\ sOut' = adaptiveThreshold(sIn, arg.blockSize, arg.constant)
    /\ sOp' = "adaptiveThreshold"
    /\ UNCHANGED <<sIn, tvars, pvars, evars, avars>>

StageNext ==
    \/ ApplyAutoContrast
    \/ ApplyInvertIfDarkBackground
    \/ ReapplyInvertIfDarkBackground
    \/ ApplySharpen
    \/ ApplyAdaptiveThreshold

SpecStages == StageInit /\ [][StageNext]_vars

----------------------------------------------------------------------------
(* preprocessImageForOCR: one call, from loadImage to canvas.toDataURL       *)

\* the values of PreprocessOptions the call is made with; contrastFactor is
\* a fraction <<numerator, denominator>>
Configs ==
    [minWidth : {2, 3},
     contrastFactor : {<<1, 2>>, <<1, 1>>, <<3, 2>>},
     thresholdBlockSize : {3},
     thresholdConstant : {10},
     sharpenEnabled : BOOLEAN,
     thresholdEnabled : BOOLEAN]

Colours ==
    { [r |-> 0, g |-> 0, b |-> 0, a |-> 255],
      [r |-> 255, g |-> 255, b |-> 255, a |-> 255],
      [r |-> 20, g |-> 40, b |-> 200, a |-> 128] }

\* the pictures a label photo may show: one colour, a gradient from one
\* colour on the left to another on the right, or a chequerboard of two
Pictures ==
    [kind : {"flat"}, c1 : Colours, c2 : {CHOOSE c \in Colours : TRUE}]
        \cup [kind : {"gradient", "chequer"}, c1 : Colours, c2 : Colours]

\* the value a share x / n of the way from u to v
Blend(u, v, x, n) == IF n = 0 THEN u ELSE u + ((v - u) * x) \div n

BlendColour(c1, c2, x, n) ==
    [r |-> Blend(c1.r, c2.r, x, n), g |-> Blend(c1.g, c2.g, x, n),
     b |-> Blend(c1.b, c2.b, x, n), a |-> Blend(c1.a, c2.a, x, n)]

Sources ==
    {[decodable |-> FALSE]}
        \cup [decodable : {TRUE}, naturalWidth : 1..MaxW,
              naturalHeight : 1..MaxH, picture : Pictures]

\* a label photographed upright, 14 x 21 pixels, black on the left and
\* white on the right, and the options it is read with
TallSource ==
    [decodable |-> TRUE, naturalWidth |-> 14, naturalHeight |-> 21,
     picture |-> [kind |-> "gradient",
                  c1 |-> [r |-> 0, g |-> 0, b |-> 0, a |-> 255],
                  c2 |-> [r |-> 255, g |-> 255, b |-> 255, a |-> 255]]]

TallConfig ==
    [minWidth |-> 17, contrastFactor |-> <<3, 2>>, thresholdBlockSize |-> 3,
     thresholdConstant |-> 10, sharpenEnabled |-> TRUE,
     thresholdEnabled |-> TRUE]

\* ctx.drawImage(img, 0, 0, width, height) followed by getImageData: the
\* picture sampled on a canvas of width x height pixels
Render(pic, width, height) ==
    [w |-> width, h |-> height,
     px |-> [k \in 1..(width * height) |->
        LET x == (k - 1) % width
            y == (k - 1) \div width
        IN  CASE pic.kind = "flat" -> pic.c1
              [] pic.kind = "gradient" ->
                    BlendColour(pic.c1, pic.c2, x, width - 1)
              [] OTHER -> IF (x + y) % 2 = 0 THEN pic.c1 ELSE pic.c2]]

\* Numbers of the upscale step. A number is kept as its whole part and the
\* bits of its fraction, first bit 1/2: [int |-> 20, frac |-> <<1, 1, 0>>] is
\* 20.75. The numbers met here are at least 1.

\* the significant bits of a JavaScript number
DoubleBits == 53

RECURSIVE Log2Floor(_)
\* the position of the leading bit of n >= 1
Log2Floor(n) == IF n < 2 THEN 0 ELSE 1 + Log2Floor(n \div 2)

\* the fraction bits a number with whole part int >= 1 has room for
FracBits(int) == DoubleBits - 1 - Log2Floor(int)

RECURSIVE DivRest(_, _, _)
\* long division of rem / b in binary, for 0 <= rem < b: what is left of rem
\* after n bits of the quotient
DivRest(rem, b, n) ==
    IF n <= 8 THEN (rem * 2 ^ n) % b
    ELSE DivRest((rem * 256) % b, b, n - 8)

\* the first n bits of the fraction rem / b
DivBits(rem, b, n) ==
    [i \in 1..n |-> (2 * DivRest(rem, b, i - 1)) \div b]

\* the number one unit in the last place above d: the last 0 bit becomes 1
\* and the 1 bits after it 0; with no 0 bit the whole part goes up
AddUlp(d) ==
    IF \A i \in 1..Len(d.frac) : d.frac[i] = 1
    THEN [int |-> d.int + 1, frac |-> [i \in 1..Len(d.frac) |-> 0]]
    ELSE CHOOSE up \in
            {[d EXCEPT !.frac = [i \in 1..Len(d.frac) |->
                    IF i < last THEN d.frac[i] ELSE IF i = last THEN 1 ELSE 0]] :
                last \in {i \in 1..Len(d.frac) :
                            /\ d.frac[i] = 0
                            /\ \A j \in (i + 1)..Len(d.frac) : d.frac[j] = 1}} :
            TRUE

\* the last bit of d is odd
OddLast(d) ==
    IF d.frac = <<>> THEN d.int % 2 = 1 ELSE d.frac[Len(d.frac)] = 1

\* round to nearest, ties to even: d stands below the exact value by a rest
\* that is less than, equal to, or more than half a unit in the last place
\* (cmp = -1, 0, 1)
Nearest(d, cmp) ==
    CHOOSE near \in
        {IF cmp > 0 \/ (cmp = 0 /\ OddLast(low)) THEN AddUlp(low) ELSE low :
            low \in {d}} : TRUE

\* d cut to the bits a number has room for: a carry may have made the whole
\* part one bit longer
Fit(d) ==
    CHOOSE cut \in
        {[long EXCEPT !.frac = SubSeq(long.frac, 1,
                Min(Len(long.frac), Max(0, FracBits(long.int))))] :
            long \in {d}} : TRUE

\* a / b as JavaScript computes it, for a >= b > 0
FDiv(a, b) ==
    LET int  == a \div b
        n    == FracBits(int)
        rest == DivRest(a % b, b, n)
        cmp  == IF 2 * rest > b THEN 1 ELSE IF 2 * rest = b THEN 0 ELSE -1
    IN  CHOOSE q \in {Fit(Nearest(low, cmp)) :
                low \in {[int |-> int, frac |-> DivBits(a % b, b, n)]}} : TRUE

RECURSIVE BitsValue(_, _, _)
\* the whole number the n bits of frac after place i spell
BitsValue(frac, i, n) ==
    IF n = 0 THEN 0 ELSE 2 * BitsValue(frac, i, n - 1) + frac[i + n]

RECURSIVE CarryInto(_, _, _)
\* h times the bits of frac, added up from the right, eight places at a
\* time: what is carried into place i (place 0 is the whole part)
CarryInto(h, frac, i) ==
    IF i >= Len(frac) THEN 0
    ELSE CHOOSE carry \in
            {(h * BitsValue(frac, at, n) + CarryInto(h, frac, at + n))
                    \div (2 ^ n) :
                <<at, n>> \in {<<i, Min(8, Len(frac) - i)>>}} : TRUE

\* the bits of the fraction of h * 0.frac
TimesBits(h, frac) ==
    [i \in 1..Len(frac) |-> (h * frac[i] + CarryInto(h, frac, i)) % 2]

\* how the bits cut off after place n compare with half a unit of place n
TailCmp(frac, n) ==
    IF Len(frac) <= n \/ frac[n + 1] = 0 THEN -1
    ELSE IF \E i \in (n + 2)..Len(frac) : frac[i] = 1 THEN 1 ELSE 0

\* h * d rounded to the bits a number has room for, prod being the bits of
\* the fraction of the exact product
FMulFit(h, d, prod) ==
    LET int == h * d.int + CarryInto(h, d.frac, 0)
        n   == Min(Len(prod), FracBits(int))
    IN  Fit(Nearest([int |-> int, frac |-> SubSeq(prod, 1, n)],
                    TailCmp(prod, n)))

\* h * d as JavaScript computes it, for a whole number h >= 1
FMulInt(h, d) ==
    CHOOSE p \in UNION {{FMulFit(h, scale, prod) :
                            prod \in {TimesBits(h, scale.frac)}} :
                        scale \in {d}} : TRUE

\* Math.round: the nearest whole number, halves upwards
MathRound(d) ==
    IF d.frac # <<>> /\ d.frac[1] = 1 THEN d.int + 1 ELSE d.int

\* width after step 1: Math.round(width * (minWidth / width)) below minWidth
ScaledWidth(natW, minWidth) ==
    IF natW < minWidth
    THEN MathRound(FMulInt(natW, FDiv(minWidth, natW)))
    ELSE natW

\* a step 1 that scales the width only
ScaledHeightUnscaled(natW, natH, minWidth) == natH

\* height after step 1: Math.round(height * (minWidth / width))
ScaledHeight(natW, natH, minWidth) ==
    IF natW < minWidth
    THEN MathRound(FMulInt(natH, FDiv(minWidth, natW)))
    ELSE natH

\* a control flow that sharpens whatever sharpenEnabled says
StageAfterAlwaysSharpen(stage) ==
    CASE stage = "upscale" -> "grayscale"
      [] stage = "grayscale" -> "polarity"
      [] stage = "polarity" -> "stretch"
      [] stage = "stretch" ->
            IF cfg.contrastFactor[1] # cfg.contrastFactor[2] THEN "contrast"
            ELSE "sharpen"
      [] stage = "contrast" -> "sharpen"
      [] stage = "sharpen" ->
            IF cfg.thresholdEnabled THEN "threshold" ELSE "write"
      [] OTHER -> "write"

\* a control flow that binarizes before it sharpens
StageAfterSwapped(stage) ==
    CASE stage = "upscale" -> "grayscale"
      [] stage = "grayscale" -> "polarity"
      [] stage = "polarity" -> "stretch"
      [] stage = "stretch" ->
            IF cfg.contrastFactor[1] # cfg.contrastFactor[2] THEN "contrast"
            ELSE IF cfg.thresholdEnabled THEN "threshold"
            ELSE IF cfg.sharpenEnabled THEN "sharpen"
            ELSE "write"
      [] stage = "contrast" ->
            IF cfg.thresholdEnabled THEN "threshold"
            ELSE IF cfg.sharpenEnabled THEN "sharpen"
            ELSE "write"
      [] stage = "threshold" ->
            IF cfg.sharpenEnabled THEN "sharpen" ELSE "write"
      [] OTHER -> "write"

\* the statement reached after a stage has run: the sequence of calls and
\* the three if's around boostContrast, sharpen and adaptiveThreshold
StageAfter(stage) ==
    CASE stage = "upscale" -> "grayscale"
      [] stage = "grayscale" -> "polarity"
      [] stage = "polarity" -> "stretch"
      [] stage = "stretch" ->
            IF cfg.contrastFactor[1] # cfg.contrastFactor[2] THEN "contrast"
            ELSE IF cfg.sharpenEnabled THEN "sharpen"
            ELSE IF cfg.thresholdEnabled THEN "threshold"
            ELSE "write"
      [] stage = "contrast" ->
            IF cfg.sharpenEnabled THEN "sharpen"
            ELSE IF cfg.thresholdEnabled THEN "threshold"
            ELSE "write"
      [] stage = "sharpen" ->
            IF cfg.thresholdEnabled THEN "threshold" ELSE "write"
      [] OTHER -> "write"

PipeInit ==
    /\ pc = "load"
    /\ \/ cfg \in Configs /\ src \in Sources
       \/ cfg = TallConfig /\ src = TallSource
    /\ img = NoImage
    /\ log = <<>>
    /\ result = "pending"
    /\ TextIdle
    /\ StageIdle
    /\ EngineIdle
    /\ ApiIdle

\* await loadImage(imageSrc): img.onload
LoadImage ==
    /\ pc = "load"
    /\ src.decodable
    /\ pc' = "upscale"
    /\ UNCHANGED <<cfg, src, img, log, result, tvars, svars, evars, avars>>

\* a call that ends on img.onerror without handing the error on
DecodeFailsSilently ==
    /\ pc = "load"
    /\ ~src.decodable
    /\ pc' = "failed"
    /\ UNCHANGED <<cfg, src, img, log, result, tvars, svars, evars, avars>>

\* await loadImage(imageSrc): img.onerror rejects and the call ends
DecodeFails ==
    /\ pc = "load"
    /\ ~src.decodable
    /\ pc' = "failed"
    /\ result' = "rejected"
    /\ UNCHANGED <<cfg, src, img, log, tvars, svars, evars, avars>>

\* 1. the canvas size, imageToCanvas and getImageData
Upscale ==
    /\ pc = "upscale"
    /\ \E width \in {ScaledWidth(src.naturalWidth, cfg.minWidth)},
          height \in {ScaledHeight(src.naturalWidth, src.naturalHeight,
                                   cfg.minWidth)} :
            img' = Render(src.picture, width, height)
    /\ log' = Append(log, "upscale")
    /\ pc' = StageAfter("upscale")
    /\ UNCHANGED <<cfg, src, result, tvars, svars, evars, avars>>

\* a stage call: the buffer is rewritten and the next statement is reached
RunStage(stage, out) ==
    /\ pc = stage
    /\ img' = out
    /\ log' = Append(log, stage)
    /\ pc' = StageAfter(stage)
    /\ UNCHANGED <<cfg, src, result, tvars, svars, evars, avars>>

\* 2.
Grayscale == RunStage("grayscale", grayscale(img))

\* 3.
AutoInvert == RunStage("polarity", invertIfDarkBackground(img))

\* 4.
StretchHistogram == RunStage("stretch", autoContrast(img))

\* 5.
BoostContrast == RunStage("contrast", boostContrast(img, cfg.contrastFactor))

\* 6.
Sharpen == RunStage("sharpen", sharpen(img))

\* 7.
Threshold ==
    RunStage("threshold",
             adaptiveThreshold(img, cfg.thresholdBlockSize, cfg.thresholdConstant))

\* ctx.putImageData(imageData, 0, 0); return canvas.toDataURL("image/png")
WriteBack ==
    /\ pc = "write"
    /\ result' = img
    /\ pc' = "done"
    /\ UNCHANGED <<cfg, src, img, log, tvars, svars, evars, avars>>

PipeNext ==
    \/ LoadImage
    \/ DecodeFails
    \/ Upscale
    \/ Grayscale
    \/ AutoInvert
    \/ StretchHistogram
    \/ BoostContrast
    \/ Sharpen
    \/ Threshold
    \/ WriteBack

SpecPipeline == PipeInit /\ [][PipeNext]_vars

\* the browser fires load or error for every image, and every statement
\* after the await is synchronous: a call that can take a step takes it
\* the calls whose completion is followed: every option set, and the
\* photos that fail to decode or show a chequerboard starting in black
FairSources ==
    {s \in Sources :
        s.decodable => s.picture.kind = "chequer" /\ s.picture.c1.r = 0}

PipeFairInit ==
    /\ pc = "load"
    /\ cfg \in Configs
    /\ src \in FairSources
    /\ img = NoImage
    /\ log = <<>>
    /\ result = "pending"
    /\ TextIdle
    /\ StageIdle
    /\ EngineIdle
    /\ ApiIdle

SpecPipelineFair == PipeFairInit /\ [][PipeNext]_vars /\ WF_vars(PipeNext)

----------------------------------------------------------------------------
(* Inputs of the canonicalizer: texts made of at most MaxAtoms fragments,   *)
(* and the examples of the documentation.                                  *)

\* fragments around an identifier: letters, NC, misread glyphs, separators
IdAtoms ==
    { <<"B">>, <<"N", "C">>, <<"n", "c">>, <<"_">>, <<"@">>,
      <<",">>, <<"-">>, <<",", "1", "-", "2">>, <<" ", "3", "\t", "4", "5">>,
      <<" ">>, <<"\n">> }

\* fragments of bracketed noise around whole identifiers
NoiseAtoms ==
    { <<"(">>, <<")">>, <<"<">>, <<">">>, <<"A", ",", "1", "-", "2">>,
      <<"B", " ", "3", " ", "4">>, <<"\n">> }

RECURSIVE AtomTexts(_, _)
\* the concatenations of at most n fragments of A
AtomTexts(A, n) ==
    IF n = 0 THEN {<<>>}
    ELSE LET shorter == AtomTexts(A, n - 1)
         IN  shorter \cup {t \o a : t \in shorter, a \in A}

ExBR021 ==
    <<"B", "R", "@", "2", "1", ",", "3", "6", "5", "-", "3", "7", "2", " ", "N", "C">>

ExNoise ==
    <<"(", "A", ",", "1", "3", "-", "3", "6", ")", " ",
      "<", "A", "@", "5", "B", "Q", "R", "T", ">", " ",
      "B", "R", "@", "2", "1", ",", "3", "9", "7", "-", "4", "2", "0">>

ExB101 == <<"B", " ", "1", "0", "1", " ", "1", "5", "0", " ", "N", "C">>

ExG110 == <<"G", " ", "1", " ", "1", "0">>

ExGWide == <<"G", " ", " ", " ", " ", " ", "1", " ", " ", " ", "1", "0">>

ExBR21 == <<"B", "R", " ", "2", "1", " ", "3", "6", "5", " ", "3", "7", "2">>

Examples == {ExBR021, ExNoise, ExB101, ExG110, ExGWide, ExBR21}

\* a recognized page: an identifier line, an indented line of two numbers and
\* a line of two numbers behind a stray glyph
ExPage ==
    <<"B", " ", "3", " ", "4", "\n",
      " ", "1", "2", " ", "3", "4", "\n",
      "_", " ", "5", " ", "6">>

Pages == {ExPage}

Texts ==
    AtomTexts(IdAtoms, MaxIdAtoms) \cup AtomTexts(NoiseAtoms, MaxNoiseAtoms)
        \cup Examples \cup Pages

----------------------------------------------------------------------------
(* The canonicalizer as a state machine *)

TextInit ==
    /\ rawText \in Texts
    /\ origText = rawText
    /\ cleaned = <<>>
    /\ ids = <<>>
    /\ typed = <<>>
    /\ prevIds = <<>>
    /\ round = 0
    /\ tphase = "raw"
    /\ StageIdle
    /\ PipeIdle
    /\ EngineIdle
    /\ ApiIdle

\* the OCR dialog cleans the recognized text
Clean ==
    /\ tphase = "raw"
    /\ cleaned' = cleanOcrText(rawText)
    /\ tphase' = "cleaned"
    /\ UNCHANGED <<origText, rawText, ids, typed, prevIds, round, svars, pvars, evars, avars>>

\* every line of the cleaned text is normalized
Normalize ==
    /\ tphase = "cleaned"
    /\ ids' = [k \in 1..Len(OutputLines(cleaned)) |->
                  normalizeCircuitId(OutputLines(cleaned)[k])]
    /\ tphase' = "normalized"
    /\ UNCHANGED <<origText, rawText, cleaned, typed, prevIds, round, svars, pvars, evars, avars>>

\* the canonicalizer's own output is run through it again
Resubmit ==
    /\ tphase = "normalized"
    /\ round < MaxRounds
    /\ rawText' = Join(ids, <<"\n">>)
    /\ prevIds' = ids
    /\ round' = round + 1
    /\ cleaned' = <<>>
    /\ ids' = <<>>
    /\ tphase' = "raw"
    /\ UNCHANGED <<origText, typed, svars, pvars, evars, avars>>

\* free text typed as a circuit ID is normalized directly
NormalizeTyped ==
    /\ tphase = "raw"
    /\ round = 0
    /\ typed' = normalizeCircuitId(rawText)
    /\ tphase' = "typed"
    /\ UNCHANGED <<origText, rawText, cleaned, ids, prevIds, round, svars, pvars, evars, avars>>

TextNext == Clean \/ Normalize \/ Resubmit \/ NormalizeTyped

SpecText == TextInit /\ [][TextNext]_vars

----------------------------------------------------------------------------
(* The recognition engine: the module variables ocrInstance and initPromise, *)
(* getPaddleOcr and runPaddleOcr. A call runs without interruption up to   *)
(* its next await; import, Ocr.create and detect succeed or throw.          *)

\* the values a promise of the module settles to
Instance(i) == [kind |-> "instance", id |-> i]

Pending == [kind |-> "pending"]

Rejected == [kind |-> "rejected"]

\* a PaddleOcrResult
Lines == [kind |-> "lines"]

\* if (ocrInstance) return ocrInstance;
InstanceReady == ocrInstance # NoValue

\* a getPaddleOcr that never finds an initialization in progress
InitInProgressNever == FALSE

\* if (initPromise) return initPromise;
InitInProgress == initPromise # 0

\* a call as it stands after the synchronous part of getPaddleOcr: the
\* promise it awaits (0: one already resolved with ocr) and what it saw
NewCall(fn, promise, ocr, seen) ==
    [fn |-> fn, at |-> "ocr", waits |-> promise, ocr |-> ocr, seen |-> seen,
     detects |-> 0, detectThrew |-> FALSE, out |-> Pending]

\* the state of the engine as a caller could name it
EngineState ==
    IF ocrInstance # NoValue THEN "ready"
    ELSE IF \E p \in 1..Len(inits) : inits[p].at # "settled"
    THEN "initializing"
    ELSE IF \E p \in 1..Len(inits) : inits[p].threw # "none" THEN "failed"
    ELSE "not yet initialized"

\* getPaddleOcr() called from getPaddleOcr's caller or from runPaddleOcr,
\* up to the first await
GetPaddleOcr ==
    \E fn \in {"getPaddleOcr", "runPaddleOcr"} :
        /\ Len(calls) < MaxCalls
        /\ IF InstanceReady
           THEN /\ calls' = Append(calls,
                        NewCall(fn, 0, ocrInstance, EngineState))
                /\ UNCHANGED <<ocrInstance, initPromise, inits>>
           ELSE IF InitInProgress
           THEN /\ calls' = Append(calls,
                        NewCall(fn, initPromise, Pending, EngineState))
                /\ UNCHANGED <<ocrInstance, initPromise, inits>>
           ELSE /\ inits' = Append(inits,
                        [at |-> "import", threw |-> "none", value |-> Pending])
                /\ initPromise' = Len(inits) + 1
                /\ calls' = Append(calls,
                        NewCall(fn, Len(inits) + 1, Pending, EngineState))
                /\ UNCHANGED ocrInstance
        /\ UNCHANGED <<tvars, svars, pvars, avars>>

\* a catch block that throws the error again
CaughtRethrows(p, step) ==
    /\ inits' = [inits EXCEPT ![p] =
            [at |-> "settled", threw |-> step, value |-> Rejected]]
    /\ UNCHANGED <<ocrInstance, initPromise>>

\* a catch block that clears initPromise so that a later call tries again
CaughtForgets(p, step) ==
    /\ inits' = [inits EXCEPT ![p] =
            [at |-> "settled", threw |-> step, value |-> NoValue]]
    /\ initPromise' = 0
    /\ UNCHANGED ocrInstance

\* catch (err) { console.warn(...); return null; }
Caught(p, step) ==
    /\ inits' = [inits EXCEPT ![p] =
            [at |-> "settled", threw |-> step, value |-> NoValue]]
    /\ UNCHANGED <<ocrInstance, initPromise>>

\* await import("@gutenye/ocr-browser") resolves and Ocr.create is called
ImportSucceeds ==
    \E p \in 1..Len(inits) :
        /\ inits[p].at = "import"
        /\ inits' = [inits EXCEPT ![p].at = "create"]
        /\ UNCHANGED <<ocrInstance, initPromise, calls>>
        /\ UNCHANGED <<tvars, svars, pvars, avars>>

ImportFails ==
    \E p \in 1..Len(inits) :
        /\ inits[p].at = "import"
        /\ Caught(p, "import")
        /\ UNCHANGED <<calls, tvars, svars, pvars, avars>>

\* await Ocr.create(...) resolves: ocrInstance = instance; return instance
CreateSucceeds ==
    \E p \in 1..Len(inits) :
        /\ inits[p].at = "create"
        /\ ocrInstance' = Instance(p)
        /\ inits' = [inits EXCEPT ![p] =
                [at |-> "settled", threw |-> "none", value |-> Instance(p)]]
        /\ UNCHANGED <<initPromise, calls, tvars, svars, pvars, avars>>

CreateFails ==
    \E p \in 1..Len(inits) :
        /\ inits[p].at = "create"
        /\ Caught(p, "create")
        /\ UNCHANGED <<calls, tvars, svars, pvars, avars>>

\* what the promise a call awaits has settled to, Pending before that
Awaited(c) ==
    IF calls[c].waits = 0 THEN calls[c].ocr ELSE inits[calls[c].waits].value

\* the promise of getPaddleOcr settles: getPaddleOcr's caller has its
\* answer; runPaddleOcr goes on with  if (!ocr) return null;  and
\* ocr.detect(imageDataUrl)
OcrArrives ==
    \E c \in 1..Len(calls) :
        /\ calls[c].at = "ocr"
        /\ Awaited(c) # Pending
        /\ calls' = [calls EXCEPT ![c] =
              IF calls[c].fn = "getPaddleOcr" \/ Awaited(c) = Rejected
              THEN [@ EXCEPT !.at = "done", !.ocr = Awaited(c),
                             !.out = Awaited(c)]
              ELSE IF Awaited(c) = NoValue
              THEN [@ EXCEPT !.at = "done", !.ocr = NoValue, !.out = NoValue]
              ELSE [@ EXCEPT !.at = "detect", !.ocr = Awaited(c),
                             !.detects = 1]]
        /\ UNCHANGED <<ocrInstance, initPromise, inits>>
        /\ UNCHANGED <<tvars, svars, pvars, avars>>

\* await ocr.detect(imageDataUrl) resolves: the lines are mapped and joined
DetectSucceeds ==
    \E c \in 1..Len(calls) :
        /\ calls[c].at = "detect"
        /\ calls' = [calls EXCEPT ![c].at = "done", ![c].out = Lines]
        /\ UNCHANGED <<ocrInstance, initPromise, inits>>
        /\ UNCHANGED <<tvars, svars, pvars, avars>>

\* ocr.detect rejects: nothing in runPaddleOcr catches it
DetectFails ==
    \E c \in 1..Len(calls) :
        /\ calls[c].at = "detect"
        /\ calls' = [calls EXCEPT ![c].at = "done", ![c].detectThrew = TRUE,
                                  ![c].out = Rejected]
        /\ UNCHANGED <<ocrInstance, initPromise, inits>>
        /\ UNCHANGED <<tvars, svars, pvars, avars>>

EngineInit ==
    /\ EngineIdle
    /\ TextIdle
    /\ StageIdle
    /\ PipeIdle
    /\ ApiIdle

EngineNext ==
    \/ GetPaddleOcr
    \/ ImportSucceeds
    \/ ImportFails
    \/ CreateSucceeds
    \/ CreateFails
    \/ OcrArrives
    \/ DetectSucceeds
    \/ DetectFails

SpecEngine == EngineInit /\ [][EngineNext]_vars

----------------------------------------------------------------------------
(* The storage the request handler works on. A circuit is stored with the   *)
(* fields it was created with; the circuits of a cable are listed in the    *)
(* order of their position, those of equal position in the order they were  *)
(* created.                                                                 *)

\* storage.getCable(id): the cable, or undefined
HasCable(id) == id \in DOMAIN cables

CircuitOfCable(c, id) == c.cableId = id

\* the circuits of one cable, in the order they were created
CreatedOn(id) ==
    LET rows == {k \in 1..Len(circuits) : CircuitOfCable(circuits[k], id)}
    IN  [n \in 1..Cardinality(rows) |->
            circuits[CHOOSE k \in rows :
                        Cardinality({j \in rows : j <= k}) = n]]

\* row c put into a list ordered by position, after the rows that are not
\* behind it
InsertByPosition(list, c) ==
    LET k == Cardinality({j \in 1..Len(list) :
                            list[j].position <= c.position})
    IN  SubSeq(list, 1, k) \o <<c>> \o SubSeq(list, k + 1, Len(list))

RECURSIVE OrderedByPosition(_)
OrderedByPosition(list) ==
    IF list = <<>> THEN <<>>
    ELSE InsertByPosition(OrderedByPosition(SubSeq(list, 1, Len(list) - 1)),
                          list[Len(list)])

\* storage.getCircuitsByCableId(id)
getCircuitsByCableId(id) == OrderedByPosition(CreatedOn(id))

----------------------------------------------------------------------------
(* apiRequest: POST /api/circuits                                           *)

\* the value of a run of decimal digits
RECURSIVE DecimalValue(_)
DecimalValue(s) ==
    IF s = <<>> THEN 0
    ELSE 10 * DecimalValue(SubSeq(s, 1, Len(s) - 1))
            + (CHOOSE v \in 0..9 :
                    s[Len(s)] = <<"0", "1", "2", "3", "4", "5", "6", "7", "8",
                                  "9">>[v + 1])

HexDigits == Digits \cup {"a", "b", "c", "d", "e", "f",
                          "A", "B", "C", "D", "E", "F"}

HexDigitValue(ch) ==
    IF ch \in Digits THEN DecimalValue(<<ch>>)
    ELSE IF ch \in {"a", "A"} THEN 10
    ELSE IF ch \in {"b", "B"} THEN 11
    ELSE IF ch \in {"c", "C"} THEN 12
    ELSE IF ch \in {"d", "D"} THEN 13
    ELSE IF ch \in {"e", "E"} THEN 14
    ELSE 15

RECURSIVE HexValue(_)
HexValue(s) ==
    IF s = <<>> THEN 0
    ELSE 16 * HexValue(SubSeq(s, 1, Len(s) - 1)) + HexDigitValue(s[Len(s)])

NaN == [nan |-> TRUE, value |-> 0]

Number(v) == [nan |-> FALSE, value |-> v]

\* parseInt(s) without a radix: leading white space is skipped, a sign is
\* read, 0x or 0X announces hexadecimal digits, and the digits are read up
\* to the first character that is not one; NaN when there is no digit
parseInt(s) ==
    LET from == RunLen(s, 1, Space) + 1
        sign == IF from <= Len(s) /\ s[from] \in {"+", "-"} THEN 1 ELSE 0
        neg  == sign = 1 /\ s[from] = "-"
        at   == from + sign
        hex  == at + 1 <= Len(s) /\ s[at] = "0" /\ s[at + 1] \in {"x", "X"}
        n    == IF hex THEN RunLen(s, at + 2, HexDigits)
                ELSE RunLen(s, at, Digits)
        v    == IF hex THEN HexValue(SubSeq(s, at + 2, at + 1 + n))
                ELSE DecimalValue(SubSeq(s, at, at + n - 1))
    IN  IF n = 0 THEN NaN ELSE Number(IF neg THEN 0 - v ELSE v)

\* lines 65-72: the circuit ID split on ',' and '-', and the number of
\* fibers its range asks for; error is the message thrown, "" when none
ParseRange(circuitId) ==
    LET parts == SplitFrom(circuitId, 1, ",")
    IN  IF Len(parts) # 2
        THEN [error |-> "Invalid circuit ID format", fiberCount |-> 0]
        ELSE LET rangeParts == SplitFrom(parts[2], 1, "-")
             IN  IF Len(rangeParts) # 2
                 THEN [error |-> "Invalid range format", fiberCount |-> 0]
                 ELSE LET rangeStart == parseInt(rangeParts[1])
                          rangeEnd   == parseInt(rangeParts[2])
                      IN  IF rangeStart.nan \/ rangeEnd.nan
                          THEN [error |-> "Invalid range values",
                                fiberCount |-> 0]
                          ELSE [error |-> "",
                                fiberCount |->
                                    rangeEnd.value - rangeStart.value + 1]

\* line 76
Position(existingCircuits) == Len(existingCircuits)

\* a fiberStart that always begins at 1
FiberStartAlwaysOne(existingCircuits) == 1

\* lines 78-82
FiberStart(existingCircuits) ==
    IF Len(existingCircuits) > 0
    THEN existingCircuits[Len(existingCircuits)].fiberEnd + 1
    ELSE 1

\* line 84
FiberEnd(fiberStart, fiberCount) == fiberStart + fiberCount - 1

\* line 87
Exceeds(fiberEnd, cableFiberCount) == fiberEnd > cableFiberCount

\* the circuit IDs a request may carry
CircuitIds ==
    { <<"a", ",", "1", "-", "2">>,
      <<"a", ",", "1", "-", "1">>,
      <<"b", ",", "3", "-", "6">>,
      <<",", "1", "-", "4">>,
      <<"a", ",", "5", "-", "3">>,
      <<"a", ",", "2", "-", "1">>,
      <<"a", ",", "1", "x", "-", "2">>,
      <<"a", " ", "1", " ", "2">>,
      <<"a", ",", "1", "-", "2", "-", "3">>,
      <<"a", ",", "x", "-", "2">>,
      <<"a", ",", "b", ",", "1", "-", "2">> }

\* the cables of the project: their fiberCount
Project == [c \in {"c1", "c2"} |-> IF c = "c1" THEN MaxFibers ELSE 2]

\* the bodies of POST /api/circuits: every circuit ID on the first cable,
\* two on the second, and one on a cable that does not exist
Bodies ==
    [cableId : {"c1"}, circuitId : CircuitIds]
        \cup [cableId : {"c2"},
              circuitId : {<<"a", ",", "1", "-", "2">>,
                           <<"a", ",", "1", "-", "1">>}]
        \cup [cableId : {"gone"}, circuitId : {<<"a", ",", "1", "-", "2">>}]

InFlight == {r \in 1..Len(reqs) : reqs[r].at # "done"}

\* apiRequest("POST", "/api/circuits", data) is called: storage.getCable
PostCircuit ==
    \E data \in Bodies :
        /\ parallel > 0
        /\ Len(reqs) < MaxReqs
        /\ Cardinality(InFlight) < parallel
        /\ reqs' = Append(reqs,
                [cableId |-> data.cableId, circuitId |-> data.circuitId,
                 at |-> "cable", cableFiberCount |-> 0, fiberCount |-> 0,
                 position |-> 0, fiberStart |-> 0, fiberEnd |-> 0,
                 outcome |-> "pending"])
        /\ UNCHANGED <<cables, circuits, parallel, saveCalls, mutation,
                       invalidated>>
        /\ UNCHANGED <<tvars, svars, pvars, evars>>

\* the request ends: the error is thrown again at lines 158-160
Thrown(r, message) ==
    reqs' = [reqs EXCEPT ![r].at = "done", ![r].outcome = message]

\* await storage.getCable resolves: lines 62-72, then
\* storage.getCircuitsByCableId is called
CableRead ==
    \E r \in 1..Len(reqs) :
        /\ reqs[r].at = "cable"
        /\ IF ~HasCable(reqs[r].cableId)
           THEN Thrown(r, "Cable not found")
           ELSE LET range == ParseRange(reqs[r].circuitId)
                IN  IF range.error # ""
                    THEN Thrown(r, range.error)
                    ELSE reqs' = [reqs EXCEPT
                            ![r].at = "list",
                            ![r].cableFiberCount = cables[reqs[r].cableId],
                            ![r].fiberCount = range.fiberCount]
        /\ UNCHANGED <<cables, circuits, parallel, saveCalls, mutation,
                       invalidated>>
        /\ UNCHANGED <<tvars, svars, pvars, evars>>

\* await storage.getCircuitsByCableId resolves: lines 76-89, then
\* storage.createCircuit is called
ListRead ==
    \E r \in 1..Len(reqs) :
        /\ reqs[r].at = "list"
        /\ \E existingCircuits \in {getCircuitsByCableId(reqs[r].cableId)} :
            \E fiberStart \in {FiberStart(existingCircuits)} :
            \E fiberEnd \in {FiberEnd(fiberStart, reqs[r].fiberCount)} :
                IF Exceeds(fiberEnd, reqs[r].cableFiberCount)
                THEN Thrown(r, "fibers remaining")
                ELSE reqs' = [reqs EXCEPT
                        ![r].at = "create",
                        ![r].position = Position(existingCircuits),
                        ![r].fiberStart = fiberStart,
                        ![r].fiberEnd = fiberEnd]
        /\ UNCHANGED <<cables, circuits, parallel, saveCalls, mutation,
                       invalidated>>
        /\ UNCHANGED <<tvars, svars, pvars, evars>>

\* storage.createCircuit stores the circuit and the request returns
CircuitCreated ==
    \E r \in 1..Len(reqs) :
        /\ reqs[r].at = "create"
        /\ circuits' = Append(circuits,
                [cableId |-> reqs[r].cableId, circuitId |-> reqs[r].circuitId,
                 position |-> reqs[r].position,
                 fiberStart |-> reqs[r].fiberStart,
                 fiberEnd |-> reqs[r].fiberEnd, request |-> r])
        /\ reqs' = [reqs EXCEPT ![r].at = "done", ![r].outcome = "created"]
        /\ UNCHANGED <<cables, parallel, saveCalls, mutation, invalidated>>
        /\ UNCHANGED <<tvars, svars, pvars, evars>>

----------------------------------------------------------------------------
(* apiRequest on /api/saves, and loadSaveMutation of the History dialog     *)

Undefined == [kind |-> "undefined"]

\* const path = url.replace(/^\/api\//, ''); path.split('/') gives resource,
\* id and rest: path is given here as the sequence of its segments.
\* The storage call apiRequest makes for resource saves, or the throw
SavesRequest(method, path, data) ==
    LET id == IF Len(path) >= 2 THEN path[2] ELSE ""
    IN  IF method = "POST"
        THEN \* const { name } = data as any;
             IF data = Undefined THEN [threw |-> TRUE, call |-> <<>>]
             ELSE [threw |-> FALSE, call |-> <<"createSave", data.name>>]
        ELSE IF method = "DELETE"
        THEN IF id = "load"
             THEN \* const { id: saveId } = data as any;
                  IF data = Undefined THEN [threw |-> TRUE, call |-> <<>>]
                  ELSE [threw |-> FALSE, call |-> <<"loadSave", data.id>>]
             ELSE IF Len(path) >= 3 /\ path[Len(path)] = "reset"
             THEN [threw |-> FALSE, call |-> <<"resetAllData">>]
             ELSE [threw |-> FALSE, call |-> <<"deleteSave", id>>]
        ELSE [threw |-> FALSE, call |-> <<>>]

\* the saves listed in the dialog
SaveIds == {"s1", "s2"}

IdleMutation ==
    [status |-> "idle", saveId |-> "", response |-> "none", clicks |-> 0]

\* handleLoadSave(save.id): loadSaveMutation.mutate(saveId); the button is
\* disabled while the mutation is pending
HandleLoadSave ==
    \E saveId \in SaveIds :
        /\ parallel > 0
        /\ mutation.status # "pending"
        /\ mutation.clicks < MaxClicks
        /\ mutation' = [status |-> "pending", saveId |-> saveId,
                        response |-> "none", clicks |-> mutation.clicks + 1]
        /\ UNCHANGED <<cables, circuits, reqs, parallel, saveCalls,
                       invalidated>>
        /\ UNCHANGED <<tvars, svars, pvars, evars>>

\* mutationFn: apiRequest("POST", `/api/saves/${saveId}/load`, undefined)
LoadRequest ==
    /\ mutation.status = "pending"
    /\ mutation.response = "none"
    /\ LET done == SavesRequest("POST",
                        <<"saves", mutation.saveId, "load">>, Undefined)
       IN  /\ saveCalls' = IF done.call = <<>> THEN saveCalls
                           ELSE Append(saveCalls, done.call)
           /\ mutation' = [mutation EXCEPT
                    !.response = IF done.threw THEN "error" ELSE "ok"]
    /\ UNCHANGED <<cables, circuits, reqs, parallel, invalidated>>
    /\ UNCHANGED <<tvars, svars, pvars, evars>>

\* onSuccess invalidates the cables and circuits queries; onError shows the
\* toast "Failed to load project"
LoadSettles ==
    /\ mutation.status = "pending"
    /\ mutation.response # "none"
    /\ IF mutation.response = "ok"
       THEN /\ invalidated' = invalidated \cup {"/api/cables", "/api/circuits"}
            /\ mutation' = [mutation EXCEPT !.status = "success"]
       ELSE /\ mutation' = [mutation EXCEPT !.status = "error"]
            /\ UNCHANGED invalidated
    /\ UNCHANGED <<cables, circuits, reqs, parallel, saveCalls>>
    /\ UNCHANGED <<tvars, svars, pvars, evars>>

\* the project with its cables and no circuit; the page sends up to
\* inFlight requests at a time
ApiStart(inFlight) ==
    /\ cables = Project
    /\ circuits = <<>>
    /\ reqs = <<>>
    /\ parallel = inFlight
    /\ saveCalls = <<>>
    /\ mutation = IdleMutation
    /\ invalidated = {}
    /\ TextIdle
    /\ StageIdle
    /\ PipeIdle
    /\ EngineIdle

ApiNext ==
    \/ PostCircuit
    \/ CableRead
    \/ ListRead
    \/ CircuitCreated
    \/ HandleLoadSave
    \/ LoadRequest
    \/ LoadSettles

\* one request after the other
ApiSeqInit == ApiStart(1)

SpecApiSeq == ApiSeqInit /\ [][ApiNext]_vars

\* requests sent without waiting for the one before
ApiInit == ApiStart(MaxReqs)

SpecApi == ApiInit /\ [][ApiNext]_vars

----------------------------------------------------------------------------
(* Shapes of identifiers, stated directly on the characters *)

OneLine(s) == \A k \in 1..Len(s) : s[k] # "\n"

\* w is  prefix "," digits "-" digits  with at least minPrefix prefix characters
IsCommaDashMin(w, minPrefix) ==
    \E c \in (minPrefix + 1)..Len(w) :
        /\ w[c] = ","
        /\ \A k \in 1..(c - 1) : w[k] \in Alnum
        /\ \E d \in (c + 2)..(Len(w) - 1) :
              /\ w[d] = "-"
              /\ \A k \in (c + 1)..(d - 1) : w[k] \in Digits
              /\ \A k \in (d + 1)..Len(w) : w[k] \in Digits

\* the comma-dash pattern: a non-empty alphanumeric prefix
IsCommaDash(w) == IsCommaDashMin(w, 1)

\* the spans <<i, j>> of s whose text has the comma-dash form
CommaDashSpans(s) ==
    {ij \in (1..Len(s)) \X (1..Len(s)) :
        ij[1] <= ij[2] /\ IsCommaDash(SubSeq(s, ij[1], ij[2]))}

----------------------------------------------------------------------------
(* C3: for every line x matching the comma-dash pattern, normalize(clean(x))
   is idempotent: cleaning and normalizing that result again gives the same
   string. *)
C3_RoundTripIdempotent ==
    (/\ round = 1
     /\ tphase = "normalized"
     /\ OneLine(origText)
     /\ CommaDashSpans(origText) # {})
        => ids = prevIds

----------------------------------------------------------------------------
(* C4: cleanOcrText strips NC only as a whole word: an occurrence of NC that
   is part of a longer alphanumeric token of the final identifier (the
   comma-dash identifier the line holds once every '@' is read as '0') is
   never stripped. *)

\* the occurrence of NC at i, i+1 touches another alphanumeric character of z
InLongerToken(z, i) ==
    \/ i > 1 /\ z[i - 1] \in Alnum
    \/ i + 2 <= Len(z) /\ z[i + 2] \in Alnum

\* the occurrence of NC at i, i+1 lies within an identifier of z
InIdentifier(z, i) ==
    \E ij \in CommaDashSpans(z) : ij[1] <= i /\ i + 1 <= ij[2]

C4_NCStrippedOnlyAsWholeWord ==
    tphase = "cleaned" =>
        \A n \in 1..Len(SplitLines(rawText)) :
            LET l == RemoveAngles(RemoveParens(SplitLines(rawText)[n]))
                z == AtToZero(l)
            IN  \A i \in 1..Len(l) :
                    (InIdentifier(z, i) /\ InLongerToken(z, i))
                        => ~NCMatchAt(l, i)

----------------------------------------------------------------------------
(* C5: if the line after steps 1-4 contains a substring of the form
   alphanumeric-prefix ',' digits '-' digits, cleanOcrText emits exactly the
   leftmost such match (taken as long as it extends) and nothing of the text
   before or after it; clean("BR@21,365-372 NC") = "BR021,365-372". *)

ExBR021Clean ==
    <<"B", "R", "0", "2", "1", ",", "3", "6", "5", "-", "3", "7", "2">>

C5_CommaDashExact ==
    /\ (tphase = "cleaned" /\ OneLine(rawText)) =>
          LET l     == Denoise(rawText)
              spans == CommaDashSpans(l)
          IN  spans # {} =>
                 \E ij \in spans :
                    /\ \A o \in spans :
                          ij[1] < o[1] \/ (ij[1] = o[1] /\ ij[2] >= o[2])
                    /\ cleaned = SubSeq(l, ij[1], ij[2])
    /\ (tphase = "cleaned" /\ rawText = ExBR021) => cleaned = ExBR021Clean

C5_Witness ==
    /\ tphase = "cleaned"
    /\ rawText = ExBR021
    /\ cleaned = ExBR021Clean

----------------------------------------------------------------------------
(* C6: the whitespace shape is tried only when the comma-dash pattern did not
   match: then, if the trimmed line starts with an optional alphanumeric
   prefix, whitespace, digits, whitespace, digits, cleanOcrText emits
   'prefix start end' joined by single spaces (prefix omitted if empty);
   clean("B 101 150 NC") = "B 101 150". *)

All(t, i, j, Cls) == \A k \in i..j : t[k] \in Cls

\* 'prefix start end' for a cut of the beginning of t into prefix 1..pn,
\* start a..a2 and end b..b2
SpaceShapeOut(t, pn, a, a2, b, b2) ==
    (IF pn = 0 THEN <<>> ELSE SubSeq(t, 1, pn) \o <<" ">>)
        \o SubSeq(t, a, a2) \o <<" ">> \o SubSeq(t, b, b2)

\* what the whitespace shape yields on t: for every way to read the
\* beginning of t as  alnum*  space+  digits+  space+  digits+  (the last
\* run of digits taken whole), the text 'prefix start end'
SpaceShapeOuts(t) ==
    UNION { UNION { UNION { UNION {
        { SpaceShapeOut(t, pn, a, a2, b, b2) :
            b2 \in {e \in b..Len(t) :
                      All(t, b, e, Digits)
                      /\ (e = Len(t) \/ t[e + 1] \notin Digits)} }
        : b \in {x \in (a2 + 2)..Len(t) : All(t, a2 + 1, x - 1, Space)} }
        : a2 \in {y \in a..Len(t) : All(t, a, y, Digits)} }
        : a \in {x \in (pn + 2)..Len(t) : All(t, pn + 1, x - 1, Space)} }
        : pn \in {q \in 0..Len(t) : All(t, 1, q, Alnum)} }

ExB101Clean == <<"B", " ", "1", "0", "1", " ", "1", "5", "0">>

C6_WhitespaceShapeFallback ==
    /\ (tphase = "cleaned" /\ OneLine(rawText)) =>
          LET l == Denoise(rawText)
              t == Trim(l)
          IN  IF CommaDashSpans(l) # {}
              THEN IsCommaDash(cleaned)
              ELSE SpaceShapeOuts(t) # {} => SpaceShapeOuts(t) = {cleaned}
    /\ (tphase = "cleaned" /\ rawText = ExB101) => cleaned = ExB101Clean

C6_Witness ==
    /\ tphase = "cleaned"
    /\ rawText = ExB101
    /\ cleaned = ExB101Clean

----------------------------------------------------------------------------
(* C7: cleanOcrText works line by line: its result is the newline-join, in
   input order, of the results of cleaning each line on its own; empty lines
   and lines matching neither shape contribute nothing and never affect the
   result of another line. *)

C7_LineByLine ==
    tphase = "cleaned" =>
        LET lines == SplitLines(rawText)
            each  == [k \in 1..Len(lines) |-> cleanOcrText(lines[k])]
        IN  cleaned = Join(SelectSeq(each, NonEmpty), <<"\n">>)

\* a non-empty line that is dropped, followed by a line that is emitted
C7_Witness ==
    /\ tphase = "cleaned"
    /\ cleaned # <<>>
    /\ \E k \in 1..Len(SplitLines(rawText)) :
          /\ Trim(SplitLines(rawText)[k]) # <<>>
          /\ cleanOcrText(SplitLines(rawText)[k]) = <<>>
          /\ \E m \in (k + 1)..Len(SplitLines(rawText)) :
                cleanOcrText(SplitLines(rawText)[m]) # <<>>

----------------------------------------------------------------------------
(* C8: everything enclosed in parentheses, then everything enclosed in angle
   brackets, is removed from a line before extraction, so an identifier
   inside (...) or <...> is never emitted, while the text after an
   unterminated '(' or '<' is left as it is and stays extractable;
   clean("(A,13-36) <A@5BQRT> BR@21,397-420") = "BR021,397-420". *)

\* position k of s lies within  open ... close, close being the first one
\* after that open
Enclosed(s, k, open, close) ==
    \E p \in 1..k :
        /\ s[p] = open
        /\ \E q \in k..Len(s) :
              /\ q > p
              /\ s[q] = close
              /\ \A m \in (p + 1)..(q - 1) : s[m] # close

\* the characters of s at the positions in keep, in order
Pick(s, keep) ==
    [n \in 1..Cardinality(keep) |->
        s[CHOOSE p \in keep : Cardinality({q \in keep : q < p}) = n - 1]]

Outside(s, open, close) ==
    Pick(s, {k \in 1..Len(s) : ~Enclosed(s, k, open, close)})

ExNoiseClean ==
    <<"B", "R", "0", "2", "1", ",", "3", "9", "7", "-", "4", "2", "0">>

C8_EnclosedNoiseRemoved ==
    /\ (tphase = "cleaned" /\ OneLine(rawText)) =>
          LET bare == Outside(Outside(rawText, "(", ")"), "<", ">")
          IN  /\ cleaned = cleanOcrText(bare)
              /\ \A k \in 1..Len(bare) : ~Enclosed(bare, k, "(", ")")
              /\ \A k \in 1..Len(bare) : ~Enclosed(bare, k, "<", ">")
    /\ (tphase = "cleaned" /\ rawText = ExNoise) => cleaned = ExNoiseClean

C8_Witness ==
    /\ tphase = "cleaned"
    /\ rawText = ExNoise
    /\ cleaned = ExNoiseClean

----------------------------------------------------------------------------
(* C9: normalizeCircuitId splits the trimmed input on runs of whitespace;
   with fewer than 3 tokens it returns the input unchanged, otherwise
   'prefix,start-end': end the last token, start the one before it, prefix
   all preceding tokens concatenated without separator. *)

\* the tokens of s: the spans of its maximal runs of non-whitespace
TokenSpans(s) ==
    {ij \in (1..Len(s)) \X (1..Len(s)) :
        /\ ij[1] <= ij[2]
        /\ \A k \in ij[1]..ij[2] : s[k] \notin Space
        /\ (ij[1] = 1 \/ s[ij[1] - 1] \in Space)
        /\ (ij[2] = Len(s) \/ s[ij[2] + 1] \in Space)}

\* the span of the token that has n tokens after it
TokenFromEnd(s, n) ==
    CHOOSE ij \in TokenSpans(s) :
        Cardinality({o \in TokenSpans(s) : o[1] > ij[1]}) = n

ExG110Norm == <<"G", ",", "1", "-", "1", "0">>

ExBR21Norm == <<"B", "R", "2", "1", ",", "3", "6", "5", "-", "3", "7", "2">>

C9_NormalizeLastTwoTokens ==
    /\ tphase = "typed" =>
          IF Cardinality(TokenSpans(rawText)) < 3
          THEN typed = rawText
          ELSE LET e == TokenFromEnd(rawText, 0)
                   b == TokenFromEnd(rawText, 1)
               IN  typed =
                      Pick(rawText, {k \in 1..(b[1] - 1) : rawText[k] \notin Space})
                          \o <<",">> \o SubSeq(rawText, b[1], b[2])
                          \o <<"-">> \o SubSeq(rawText, e[1], e[2])
    /\ (tphase = "typed" /\ rawText \in {ExG110, ExGWide}) => typed = ExG110Norm
    /\ (tphase = "typed" /\ rawText = ExBR21) => typed = ExBR21Norm

C9_Witness ==
    /\ tphase = "typed"
    /\ rawText = ExBR21
    /\ typed = ExBR21Norm

----------------------------------------------------------------------------
(* C10: each line of cleanOcrText's output, after normalizeCircuitId, is a
   canonical circuit identifier: an alphanumeric prefix, a comma, decimal
   digits, a dash, decimal digits, and no whitespace. *)

IsCanonical(w) == IsCommaDashMin(w, 0)

C10_CanonicalOutput ==
    tphase = "normalized" =>
        /\ Len(ids) = Len(OutputLines(cleaned))
        /\ \A k \in 1..Len(ids) : IsCanonical(ids[k])

\* a line emitted in whitespace shape and made canonical by the normalizer
C10_Witness ==
    /\ tphase = "normalized"
    /\ \E k \in 1..Len(ids) :
          /\ \E j \in 1..Len(OutputLines(cleaned)[k]) :
                OutputLines(cleaned)[k][j] = " "
          /\ IsCanonical(ids[k])

----------------------------------------------------------------------------
(* C2: for every grayscale image, autoContrast produces an output whose
   observed minimum is 0 and maximum is 255, except on a perfectly flat input
   (all pixels equal), where the output equals the input. *)

Flat(im) == Cardinality(Lums(im)) = 1

C2_StretchOrNoOp ==
    sOp = "autoContrast" =>
        IF Flat(sIn)
        THEN sOut = sIn
        ELSE SetMin(Lums(sOut)) = 0 /\ SetMax(Lums(sOut)) = 255

----------------------------------------------------------------------------
(* C1: in every run of preprocessImageForOCR that gets past decode, the
   stages run in the fixed order upscale, grayscale, polarity correction,
   histogram stretch, contrast boost, sharpen, adaptive threshold: no stage
   runs before an earlier one of the list, the four mandatory stages always
   run, and sharpen (when enabled) runs before adaptive threshold (when
   enabled). *)

StageOrder ==
    <<"upscale", "grayscale", "polarity", "stretch", "contrast", "sharpen",
      "threshold">>

Rank(stage) == CHOOSE n \in 1..Len(StageOrder) : StageOrder[n] = stage

Ran(stage) == \E n \in 1..Len(log) : log[n] = stage

----------------------------------------------------------------------------
(* C11: for every image whose mean luminance before polarity correction is
   below 128, the mean luminance after invertIfDarkBackground is not below
   the mean before it. *)

\* the sum of the luminances; two buffers of the same size compare by their
\* sums as they do by their means
Total(im) == SumLum(im, Len(im.px))

MeanBelow128(im) == Total(im) < 128 * Len(im.px)

C11_InversionRaisesMean ==
    (sOp = "invertIfDarkBackground" /\ MeanBelow128(sIn)) =>
        Total(sOut) >= Total(sIn)

----------------------------------------------------------------------------
(* C12: polarity correction is idempotent: applied a second time to the
   output of a first application, invertIfDarkBackground finds a mean of at
   least 128, inverts nothing and leaves every pixel unchanged. *)

C12_PolarityIdempotent ==
    sOp = "invertIfDarkBackground again" =>
        /\ ~MeanBelow128(sIn)
        /\ sOut = sIn

----------------------------------------------------------------------------
(* Windows of adaptiveThreshold, stated directly on the pixels *)

\* the pixels of the image at most half columns and half rows away from
\* column x, row y
WindowPixels(im, x, y, half) ==
    { p \in (0..(im.w - 1)) \X (0..(im.h - 1)) :
        /\ p[1] - x <= half /\ x - p[1] <= half
        /\ p[2] - y <= half /\ y - p[2] <= half }

RECURSIVE DirectSum(_, _)
\* the luminances of a set of pixels, added one by one
DirectSum(im, S) ==
    IF S = {} THEN 0
    ELSE LET p == CHOOSE q \in S : TRUE
         IN  Lum(im, p[1], p[2]) + DirectSum(im, S \ {p})

Coordinates(im) == (0..(im.w - 1)) \X (0..(im.h - 1))

----------------------------------------------------------------------------
(* C13: adaptiveThreshold with an odd blockSize sets each pixel to 0 exactly
   when its luminance before the call is less than the mean of the
   luminances before the call over the blockSize x blockSize window centred
   on it (clipped at the image edges) minus constant, and to 255 otherwise;
   the output holds only the values 0 and 255. *)

C13_AdaptiveThresholdRule ==
    sOp = "adaptiveThreshold" =>
        \A p \in Coordinates(sIn) :
            LET W   == WindowPixels(sIn, p[1], p[2], (sArg.blockSize - 1) \div 2)
                n   == Cardinality(W)
                out == sOut.px[At(sIn, p[1], p[2])]
                \* v < sum / n - constant, both sides multiplied by n
                black == Lum(sIn, p[1], p[2]) * n
                            < DirectSum(sIn, W) - sArg.constant * n
            IN  /\ out.r = (IF black THEN 0 ELSE 255)
                /\ out.g = out.r
                /\ out.b = out.r

\* a 3 x 3 window, clipped at an edge, over a buffer that is not flat, with
\* pixels of both outcomes
C13_Witness ==
    /\ sOp = "adaptiveThreshold"
    /\ sArg.blockSize = 3
    /\ sArg.constant = 10
    /\ sIn.w >= 3
    /\ Lums(sOut) = {0, 255}
    /\ Cardinality(Lums(sIn)) >= 3

----------------------------------------------------------------------------
(* C14: for every image and every pixel, the window sum adaptiveThreshold
   reads from the integral image with four lookups equals the sum obtained
   by adding the luminances of all pixels of the clipped window directly, and
   the divisor count equals the number of pixels of that window. *)

C14_IntegralImageSum ==
    sOp = "adaptiveThreshold" =>
        \A p \in Coordinates(sIn) :
            LET half == sArg.blockSize \div 2
                win  == Window(sIn, p[1], p[2], half)
                W    == WindowPixels(sIn, p[1], p[2], half)
            IN  /\ WindowSum(IntegralImage(sIn), win) = DirectSum(sIn, W)
                /\ WindowCount(win) = Cardinality(W)

\* a buffer with a window that is clipped on no side in the columns (it
\* starts right of column 0 and ends left of the last column) and one that
\* is clipped, over pixels that are not all equal
C14_Witness ==
    /\ sOp = "adaptiveThreshold"
    /\ sArg.blockSize = 3
    /\ sIn.w = 4
    /\ sIn.h = 3
    /\ Lum(sIn, 0, 0) # Lum(sIn, 1, 1)
    /\ Lum(sIn, 1, 1) # Lum(sIn, 2, 2)
    /\ WindowSum(IntegralImage(sIn), Window(sIn, 2, 1, 1)) > 0

----------------------------------------------------------------------------
(* C15: sharpen leaves every pixel of the outermost 1-pixel ring unchanged
   (so an image with width or height below 3 is unchanged), and every
   interior output pixel equals clamp(5*c - up - down - left - right, 0, 255)
   computed from the values the buffer held before sharpen started. *)

Interior(im, p) ==
    /\ 0 < p[1] /\ p[1] < im.w - 1
    /\ 0 < p[2] /\ p[2] < im.h - 1

C15_SharpenFromCopy ==
    sOp = "sharpen" =>
        /\ (sIn.w < 3 \/ sIn.h < 3) => sOut = sIn
        /\ \A p \in Coordinates(sIn) :
              LET k   == At(sIn, p[1], p[2])
                  raw == 5 * Lum(sIn, p[1], p[2])
                            - Lum(sIn, p[1], p[2] - 1) - Lum(sIn, p[1], p[2] + 1)
                            - Lum(sIn, p[1] - 1, p[2]) - Lum(sIn, p[1] + 1, p[2])
                  val == IF raw < 0 THEN 0 ELSE IF raw > 255 THEN 255 ELSE raw
              IN  IF Interior(sIn, p)
                  THEN sOut.px[k] = [r |-> val, g |-> val, b |-> val,
                                     a |-> sIn.px[k].a]
                  ELSE sOut.px[k] = sIn.px[k]

\* two interior pixels side by side, both changed by the kernel, the left one
\* to a value that is not clamped
C15_Witness ==
    /\ sOp = "sharpen"
    /\ sIn.w = 4
    /\ sIn.h = 3
    /\ Lum(sOut, 1, 1) # Lum(sIn, 1, 1)
    /\ Lum(sOut, 2, 1) # Lum(sIn, 2, 1)
    /\ Lum(sOut, 1, 1) \notin {0, 255}

----------------------------------------------------------------------------
(* The call seen from outside: what was drawn, and how far the call got *)

\* the call has drawn the image and holds its imageData
Drawn == pc \in {"grayscale", "polarity", "stretch", "contrast", "sharpen",
                 "threshold", "write", "done"}

\* the buffer getImageData returned, before any stage touched it
Canvas ==
    Render(src.picture, ScaledWidth(src.naturalWidth, cfg.minWidth),
           ScaledHeight(src.naturalWidth, src.naturalHeight, cfg.minWidth))

LastStage == log[Len(log)]

----------------------------------------------------------------------------
(* C16: when sharpenEnabled and thresholdEnabled are both false, the image
   written back by preprocessImageForOCR is pixel for pixel the buffer as it
   stood after the contrast-boost step: the contrast step (the histogram
   stretch when the factor is 1) is the last stage that ran, and nothing
   changed the buffer after it. *)

\* the buffer after step 4
Stretched == autoContrast(invertIfDarkBackground(grayscale(Canvas)))

\* the buffer after step 5
PostContrast ==
    IF cfg.contrastFactor[1] # cfg.contrastFactor[2]
    THEN boostContrast(Stretched, cfg.contrastFactor)
    ELSE Stretched

C16_DisabledStagesLeaveBuffer ==
    (pc = "done" /\ ~cfg.sharpenEnabled /\ ~cfg.thresholdEnabled) =>
        /\ LastStage \in {"stretch", "contrast"}
        /\ result = PostContrast
        /\ img = PostContrast

\* a finished call with both stages disabled on a buffer that sharpen and
\* adaptiveThreshold would both have changed
C16_Witness ==
    /\ pc = "done"
    /\ ~cfg.sharpenEnabled
    /\ ~cfg.thresholdEnabled
    /\ LastStage = "contrast"
    /\ sharpen(result) # result
    /\ adaptiveThreshold(result, cfg.thresholdBlockSize,
                         cfg.thresholdConstant) # result

----------------------------------------------------------------------------
(* C17: for every image with width below minWidth, the canvas width used by
   preprocessImageForOCR is at least minWidth and the height is a whole
   number nearest to height * minWidth / width (either neighbour when the
   quotient lies halfway between two), so the aspect ratio is preserved to
   within one rounded pixel and both dimensions stay positive; an image with
   width at least minWidth keeps its dimensions. *)

C17_UpscaleDimensions ==
    Drawn =>
        IF src.naturalWidth < cfg.minWidth
        THEN /\ img.w >= cfg.minWidth
             \* | img.h - height * minWidth / width | <= 1/2
             /\ 2 * src.naturalHeight * cfg.minWidth - src.naturalWidth
                    <= 2 * img.h * src.naturalWidth
             /\ 2 * img.h * src.naturalWidth
                    <= 2 * src.naturalHeight * cfg.minWidth + src.naturalWidth
             /\ img.w > 0 /\ img.h > 0
             /\ Len(img.px) = img.w * img.h
        ELSE /\ img.w = src.naturalWidth
             /\ img.h = src.naturalHeight
             /\ Len(img.px) = img.w * img.h

\* the claim as it was made: the height is round(height * minWidth / width),
\* the upper neighbour when the quotient lies halfway between two
C17_HeightIsRoundedQuotient ==
    (Drawn /\ src.naturalWidth < cfg.minWidth) =>
        /\ 2 * src.naturalHeight * cfg.minWidth - src.naturalWidth
               < 2 * img.h * src.naturalWidth
        /\ 2 * img.h * src.naturalWidth
               <= 2 * src.naturalHeight * cfg.minWidth + src.naturalWidth

\* an upscaled image whose exact height, 21 * 17 / 14 = 25.5, lies halfway
\* between two pixels, written back at the end of the call
C17_Witness ==
    /\ pc = "done"
    /\ src.naturalWidth = 14
    /\ src.naturalHeight = 21
    /\ cfg.minWidth = 17
    /\ result.w = 17
    /\ result.h = 25

----------------------------------------------------------------------------
(* C18: after grayscale, every pixel has R = G = B, and this equality still
   holds for every pixel after each later stage (polarity correction,
   histogram stretch, contrast boost, sharpen, adaptive threshold), while the
   alpha channel is never written by any stage. *)

C18_GrayAndAlphaKept ==
    /\ Drawn =>
          \A k \in 1..Len(img.px) :
              img.px[k].a = Render(src.picture, img.w, img.h).px[k].a
    /\ (Drawn /\ Ran("grayscale")) =>
          \A k \in 1..Len(img.px) :
              img.px[k].r = img.px[k].g /\ img.px[k].g = img.px[k].b

\* a finished call through all stages on a picture that was coloured and
\* partly transparent
C18_Witness ==
    /\ pc = "done"
    /\ log = StageOrder
    /\ \E k \in 1..Len(img.px) :
          /\ Canvas.px[k].r # Canvas.px[k].b
          /\ Canvas.px[k].a \notin {0, 255}
          /\ result.px[k].a = Canvas.px[k].a

----------------------------------------------------------------------------
(* C19: boostContrast maps every channel value v to
   clamp(v*factor + 128*(1-factor), 0, 255) rounded to the nearest whole
   number (to the even one of two equally near), so every output value lies
   in [0,255] for every factor > 0, the value 128 is a fixed point, and the
   step is skipped entirely (buffer untouched) when the configured factor
   equals 1. *)

\* den times clamp(v * factor + 128 * (1 - factor), 0, 255), for the factor
\* cfg.contrastFactor = num / den
BoostedTimesDen(v) ==
    LET num == cfg.contrastFactor[1]
        den == cfg.contrastFactor[2]
        raw == v * num + 128 * (den - num)
    IN  IF raw < 0 THEN 0 ELSE IF raw > 255 * den THEN 255 * den ELSE raw

C19_BoostContrastRule ==
    [][ /\ pc = "contrast" =>
            /\ cfg.contrastFactor[1] # cfg.contrastFactor[2]
            /\ Len(img'.px) = Len(img.px)
            /\ \A k \in 1..Len(img.px) :
                  LET den  == cfg.contrastFactor[2]
                      out  == img'.px[k]
                      diff == out.r * den - BoostedTimesDen(img.px[k].r)
                  IN  /\ out.r \in 0..255
                      /\ 2 * diff <= den /\ -2 * diff <= den
                      /\ (2 * diff = den \/ -2 * diff = den) => out.r % 2 = 0
                      /\ out.g = out.r /\ out.b = out.r
                      /\ img.px[k].r = 128 => out.r = 128
        /\ (pc = "stretch" /\ cfg.contrastFactor[1] = cfg.contrastFactor[2]) =>
            pc' # "contrast"
        /\ (pc = "stretch" /\ cfg.contrastFactor[1] # cfg.contrastFactor[2]) =>
            pc' = "contrast"
      ]_vars

\* the claim as it was made: the value written is the clamped value itself
C19_BoostExactValue ==
    [][ pc = "contrast" =>
            \A k \in 1..Len(img.px) :
                img'.px[k].r * cfg.contrastFactor[2]
                    = BoostedTimesDen(img.px[k].r)
      ]_vars

\* the contrast boost has just run with factor 3/2 and left a buffer of 0,
\* 128 and 255: 128 comes from 128 alone (3v - 128 = 256), the other two
\* from the ends of the stretched histogram, clamped from -64 and 318.5
C19_Witness ==
    /\ Drawn
    /\ LastStage = "contrast"
    /\ cfg.contrastFactor = <<3, 2>>
    /\ Lums(img) = {0, 128, 255}

----------------------------------------------------------------------------
(* C20: if the image cannot be decoded, preprocessImageForOCR fails with the
   decode error before any pixel stage has run and returns no image (no
   partial result, no retry); if decode succeeds, every enabled stage runs to
   completion and exactly one image is returned. *)

StageEnabled(stage) ==
    /\ stage = "contrast" => cfg.contrastFactor[1] # cfg.contrastFactor[2]
    /\ stage = "sharpen" => cfg.sharpenEnabled
    /\ stage = "threshold" => cfg.thresholdEnabled

\* the stages the options ask for, in the order of the call
EnabledStages == SelectSeq(StageOrder, StageEnabled)

C20_DecodeFailureOrOneImage ==
    /\ [](~src.decodable =>
            /\ pc \in {"load", "failed"}
            /\ log = <<>>
            /\ img = NoImage
            /\ result = (IF pc = "failed" THEN "rejected" ELSE "pending"))
    /\ [](src.decodable =>
            /\ pc # "failed"
            /\ pc # "done" => result = "pending"
            /\ pc = "done" => (log = EnabledStages /\ result = img))
    \* the call ends where it fails or returns: no retry, no second image
    /\ [][pc \notin {"failed", "done"}]_vars
    /\ (~src.decodable) ~> (pc = "failed")
    /\ src.decodable ~> (pc = "done")

\* a call that has ended on the decode error
C20_Witness ==
    /\ pc = "failed"
    /\ ~src.decodable
    /\ result = "rejected"
    /\ log = <<>>

----------------------------------------------------------------------------
(* C21: for any interleaving of concurrent getPaddleOcr calls, engine
   initialization (Ocr.create) is started at most once: every call made
   while initialization is in progress receives the same pending result, and
   once an instance is ready every call returns that same instance, which is
   never replaced. *)

\* the initializations that got as far as calling Ocr.create
CreatesStarted ==
    {p \in 1..Len(inits) :
        inits[p].at = "create" \/ inits[p].threw = "create"
            \/ inits[p].value.kind = "instance"}

C21_SingleInitialization ==
    /\ [](/\ Len(inits) <= 1
          /\ Cardinality(CreatesStarted) <= 1
          /\ \A c \in 1..Len(calls) :
                \* a call made before the instance was ready awaits the one
                \* promise, and is answered with what that promise settled to
                /\ calls[c].waits # 0 =>
                      /\ calls[c].waits = initPromise
                      /\ calls[c].ocr \in {Pending, inits[initPromise].value}
                \* a call made once the instance was ready has that instance
                /\ calls[c].waits = 0 => calls[c].ocr = ocrInstance
                /\ (calls[c].fn = "getPaddleOcr" /\ calls[c].at = "done") =>
                      calls[c].out = inits[1].value
                /\ (InstanceReady /\ calls[c].ocr # Pending) =>
                      calls[c].ocr = ocrInstance)
    /\ [][InstanceReady => ocrInstance' = ocrInstance]_vars

\* three calls: two made while the initialization was in progress, still
\* waiting on its promise now that it has settled, and one made afterwards
C21_Witness ==
    /\ Len(calls) = 3
    /\ calls[1].waits = 1 /\ calls[1].at = "ocr"
    /\ calls[2].waits = 1 /\ calls[2].at = "ocr"
    /\ calls[2].seen = "initializing"
    /\ calls[3].waits = 0 /\ calls[3].seen = "ready"
    /\ ocrInstance = Instance(1)

----------------------------------------------------------------------------
(* C22: when initialization of the primary engine fails (module import or
   Ocr.create throws), getPaddleOcr resolves to null instead of rejecting,
   and runPaddleOcr resolves to null without calling detect, which is the
   signal for the caller to fall back to the secondary engine. *)

\* the initialization call c waited for threw
InitThrewFor(c) ==
    calls[c].waits # 0 /\ inits[calls[c].waits].threw # "none"

C22_InitFailureYieldsNull ==
    /\ \A p \in 1..Len(inits) :
          /\ inits[p].value # Rejected
          /\ inits[p].threw # "none" =>
                inits[p].at = "settled" /\ inits[p].value = NoValue
    /\ \A c \in 1..Len(calls) :
          /\ InitThrewFor(c) => calls[c].detects = 0
          /\ (InitThrewFor(c) /\ calls[c].at = "done") =>
                calls[c].out = NoValue

\* Ocr.create threw; a getPaddleOcr call and a runPaddleOcr call that waited
\* for it have both returned
C22_Witness ==
    /\ Len(inits) = 1
    /\ inits[1].threw = "create"
    /\ \E c, d \in 1..Len(calls) :
          /\ calls[c].fn = "getPaddleOcr" /\ calls[c].at = "done"
          /\ calls[d].fn = "runPaddleOcr" /\ calls[d].at = "done"
          /\ calls[d].out = NoValue

----------------------------------------------------------------------------
(* C23: on invocation failure of the primary engine (the engine initialized
   but its detect call fails), the primary path likewise yields the fall-back
   signal (runPaddleOcr resolves to null) so that the secondary engine is
   used, rather than surfacing a recognition failure. *)

C23_DetectFailureYieldsNull ==
    \A c \in 1..Len(calls) :
        calls[c].detectThrew => calls[c].out = NoValue

----------------------------------------------------------------------------
(* C29: once the first engine initialization has failed, the failure is
   memoized for the life of the process: every later getPaddleOcr call
   resolves to null without starting a new initialization attempt, so the
   engine state never moves from failed to initializing or ready. *)

C29_FailureMemoized ==
    /\ [](\A c \in 1..Len(calls) :
            calls[c].seen = "failed" =>
                /\ calls[c].waits = initPromise
                /\ calls[c].detects = 0
                /\ calls[c].at = "done" => calls[c].out = NoValue)
    /\ [][EngineState = "failed" =>
            /\ EngineState' = "failed"
            /\ inits' = inits
            /\ initPromise' = initPromise]_vars

\* the import threw, and a getPaddleOcr call made after that has returned
C29_Witness ==
    /\ EngineState = "failed"
    /\ inits[1].threw = "import"
    /\ \E c \in 1..Len(calls) :
          /\ calls[c].fn = "getPaddleOcr"
          /\ calls[c].seen = "failed"
          /\ calls[c].at = "done"
          /\ calls[c].out = NoValue

----------------------------------------------------------------------------
(* C24: after any sequence of successful POST /api/circuits creations on one
   cable (no deletions in between), fiber positions are auto-calculated from
   circuit order: the k-th circuit has position k-1, the first has fiberStart
   1, each later one has fiberStart equal to the previous circuit's fiberEnd
   + 1, and fiberEnd - fiberStart + 1 equals end - start + 1 of the range in
   its circuit ID. *)

\* end - start + 1 for an ID of the form prefix,start-end, read off the
\* characters around its comma and its dash
RangeSize(w) ==
    LET c == CHOOSE k \in 1..Len(w) : w[k] = ","
        d == CHOOSE k \in 1..Len(w) : w[k] = "-"
    IN  DecimalValue(SubSeq(w, d + 1, Len(w)))
            - DecimalValue(SubSeq(w, c + 1, d - 1)) + 1

----------------------------------------------------------------------------
(* C25: clicking Load in the History dialog restores the saved project: the
   request issued by loadSaveMutation for save id S reaches
   storage.loadSave(S) through apiRequest and the mutation ends in success,
   after which the cables and circuits queries are invalidated. *)

C25_LoadRestoresSave ==
    /\ mutation.response # "none" =>
          /\ mutation.response = "ok"
          /\ \E k \in 1..Len(saveCalls) :
                saveCalls[k] = <<"loadSave", mutation.saveId>>
    /\ mutation.status \notin {"idle", "pending"} =>
          /\ mutation.status = "success"
          /\ {"/api/cables", "/api/circuits"} \subseteq invalidated

----------------------------------------------------------------------------
(* C26: a POST /api/circuits request is rejected with an error, and storage
   is left unchanged (no circuit created), whenever the cable does not
   exist, the circuit ID is not of the form 'prefix,start-end' with numeric
   start and end, or the computed fiberEnd would exceed the cable's
   fiberCount. *)

\* w is  prefix "," digits "-" digits, the prefix any text without a comma
IsPrefixStartEnd(w) ==
    \E c \in 1..Len(w) :
        /\ w[c] = ","
        /\ \A k \in 1..(c - 1) : w[k] # ","
        /\ \E d \in (c + 2)..(Len(w) - 1) :
              /\ w[d] = "-"
              /\ \A k \in (c + 1)..(d - 1) : w[k] \in Digits
              /\ \A k \in (d + 1)..Len(w) : w[k] \in Digits

CreatedBy(r) == {k \in 1..Len(circuits) : circuits[k].request = r}

C26_BadRequestsRejected ==
    \A r \in 1..Len(reqs) :
        /\ reqs[r].outcome # "created" => CreatedBy(r) = {}
        /\ reqs[r].at = "done" =>
              /\ ~HasCable(reqs[r].cableId) => reqs[r].outcome # "created"
              /\ ~IsPrefixStartEnd(reqs[r].circuitId) =>
                    reqs[r].outcome # "created"
              /\ reqs[r].outcome = "created" =>
                    reqs[r].fiberEnd <= cables[reqs[r].cableId]

----------------------------------------------------------------------------
(* C27: every circuit stored through POST /api/circuits satisfies
   1 <= fiberStart <= fiberEnd <= fiberCount of its cable, for every
   accepted circuit ID, including IDs whose range end is smaller than its
   start. *)

C27_StoredRangeWithinCable ==
    \A k \in 1..Len(circuits) :
        /\ 1 <= circuits[k].fiberStart
        /\ circuits[k].fiberStart <= circuits[k].fiberEnd
        /\ circuits[k].fiberEnd <= cables[circuits[k].cableId]

----------------------------------------------------------------------------
(* C28: for any interleaving of two or more concurrent POST /api/circuits
   requests on the same cable (each request awaits the cable read, the
   circuit-list read and the create as separate steps), no two stored
   circuits of that cable have overlapping [fiberStart, fiberEnd] ranges or
   equal positions. *)

\* every circuit stored on the cable has at least one fiber (the ranges that
\* end before they start are C27's matter)
ProperRanges(id) ==
    \A k \in 1..Len(circuits) :
        circuits[k].cableId = id => circuits[k].fiberStart <= circuits[k].fiberEnd

C28_NoOverlapUnderConcurrency ==
    \A j, k \in 1..Len(circuits) :
        (/\ j < k
         /\ circuits[j].cableId = circuits[k].cableId
         /\ ProperRanges(circuits[j].cableId)) =>
            /\ circuits[j].position # circuits[k].position
            /\ \/ circuits[j].fiberEnd < circuits[k].fiberStart
               \/ circuits[k].fiberEnd < circuits[j].fiberStart

----------------------------------------------------------------------------
(* C30: every line that cleanOcrText emits in whitespace shape (a line
   without a comma) consists of exactly three tokens separated by single
   spaces, the first a non-empty alphanumeric prefix and the other two runs
   of digits; the pattern is anchored on the trimmed line, so the prefix is
   never empty and a line holding only two numbers is always dropped. *)

\* w is  prefix " " digits " " digits  with a non-empty alphanumeric prefix
IsThreeTokens(w) ==
    \E p \in 1..Len(w) :
        /\ \A k \in 1..p : w[k] \in Alnum
        /\ p + 1 <= Len(w) /\ w[p + 1] = " "
        /\ \E q \in (p + 3)..(Len(w) - 1) :
              /\ w[q] = " "
              /\ \A k \in (p + 2)..(q - 1) : w[k] \in Digits
              /\ \A k \in (q + 1)..Len(w) : w[k] \in Digits

\* t is  digits  whitespace  digits  and nothing else
OnlyTwoNumbers(t) ==
    \E a \in 1..Len(t) :
        /\ \A k \in 1..a : t[k] \in Digits
        /\ \E b \in (a + 2)..Len(t) :
              /\ \A k \in (a + 1)..(b - 1) : t[k] \in Space
              /\ \A k \in b..Len(t) : t[k] \in Digits

\* the lines of the input that hold only two numbers
TwoNumberLines(text) ==
    {k \in 1..Len(SplitLines(text)) :
        \/ OnlyTwoNumbers(Trim(SplitLines(text)[k]))
        \/ OnlyTwoNumbers(Trim(Denoise(SplitLines(text)[k])))}

HasComma(w) == \E k \in 1..Len(w) : w[k] = ","

C30_WhitespaceShapeHasPrefix ==
    tphase = "cleaned" =>
        /\ \A k \in 1..Len(OutputLines(cleaned)) :
              ~HasComma(OutputLines(cleaned)[k])
                  => IsThreeTokens(OutputLines(cleaned)[k])
        /\ Len(OutputLines(cleaned))
              <= Len(SplitLines(rawText)) - Cardinality(TwoNumberLines(rawText))
        /\ (OneLine(rawText) /\ TwoNumberLines(rawText) # {}) => cleaned = <<>>

\* a page with an emitted whitespace-shape line and a dropped line of two
\* numbers that begins with whitespace
C30_Witness ==
    /\ tphase = "cleaned"
    /\ \E k \in 1..Len(OutputLines(cleaned)) :
          /\ ~HasComma(OutputLines(cleaned)[k])
          /\ IsThreeTokens(OutputLines(cleaned)[k])
    /\ \E k \in TwoNumberLines(rawText) :
          /\ SplitLines(rawText)[k][1] \in Space
          /\ cleanOcrText(SplitLines(rawText)[k]) = <<>>

====
